---- MODULE Spec2Model ----
(***************************************************************************)
(* State-machine model of the xv6 E1000 network stack: PCI enumeration     *)
(* (pci.c), the E1000 driver (e1000.c), the NIC registry (nic.c).          *)
(*                                                                         *)
(* A uint32_t is a pair <<hi, lo>> of 16-bit halves (value hi*65536 + lo), *)
(* so that every 32-bit value, 0xFFFFFFFF included, is representable and   *)
(* arithmetic wraps at 2^32 as it does in the C code.                      *)
(***************************************************************************)
EXTENDS Integers, Sequences, FiniteSets, TLC

\* ------------------------------------------------------------------ words

Pow2(n) == 2 ^ n

RECURSIVE BitAndN(_, _, _)
\* a & b on the low n bits
BitAndN(a, b, n) ==
    IF n = 0 THEN 0
    ELSE (IF a % 2 = 1 /\ b % 2 = 1 THEN 1 ELSE 0)
         + 2 * BitAndN(a \div 2, b \div 2, n - 1)

RECURSIVE BitOrN(_, _, _)
\* a | b on the low n bits
BitOrN(a, b, n) ==
    IF n = 0 THEN 0
    ELSE (IF a % 2 = 1 \/ b % 2 = 1 THEN 1 ELSE 0)
         + 2 * BitOrN(a \div 2, b \div 2, n - 1)

And16(a, b) == BitAndN(a, b, 16)
Or16(a, b) == BitOrN(a, b, 16)
Not16(a) == 65535 - a

\* the uint32_t with value n, for 0 <= n < 2^31
W(n) == <<n \div 65536, n % 65536>>
Hi(w) == w[1]
Lo(w) == w[2]
WAnd(a, b) == <<And16(a[1], b[1]), And16(a[2], b[2])>>
WOr(a, b) == <<Or16(a[1], b[1]), Or16(a[2], b[2])>>
WNot(a) == <<Not16(a[1]), Not16(a[2])>>
\* a + b mod 2^32
WAdd(a, b) ==
    LET lo == a[2] + b[2]
        hi == a[1] + b[1] + (lo \div 65536)
    IN  <<hi % 65536, lo % 65536>>
\* -a mod 2^32 (two's complement)
WNeg(a) == WAdd(WNot(a), <<0, 1>>)
WLe(a, b) == a[1] < b[1] \/ (a[1] = b[1] /\ a[2] <= b[2])
WZero == <<0, 0>>
WOnes == <<65535, 65535>>


\* ------------------------------------------------------------ model bounds

\* sende1000 calls made by the caller (above 128, so that the ring wraps)
MaxSends == 130
\* the first MaxFree calls submit any packet; later calls resend the last one
MaxFree == 2
\* polls of a hardware wait are counted modulo PollMod
PollMod == 2

\* -------------------------------------------------------- E1000 constants

E1000_RBD_SLOTS == 128
E1000_TBD_SLOTS == 128
E1000_CONTROL_REG == 0
E1000_CONTROL_RESET_MASK == <<1024, 0>>
E1000_CONTROL_ASDE_MASK == <<0, 32>>
E1000_CONTROL_SLUP_MASK == <<0, 64>>
E1000_RDBAL == 10240
E1000_RDBAH == 10244
E1000_RDLEN == 10248
E1000_RDH == 10256
E1000_RDT == 10264
E1000_TDBAL == 14336
E1000_TDBAH == 14340
E1000_TDLEN == 14344
E1000_TDH == 14352
E1000_TDT == 14360
E1000_RECV_RAL0 == 21504
E1000_RECV_RAH0 == 21508
E1000_TCTL == 1024
E1000_TCTL_EN == <<0, 2>>
E1000_TCTL_PSP == <<0, 8>>
\* E1000_TCTL_CT_SET(0x0f) = 0x0f << 4, E1000_TCTL_COLD_SET(0x200) = 0x200 << 12
E1000_TCTL_CT_SET_0f == <<0, 240>>
E1000_TCTL_COLD_SET_200 == <<32, 0>>
E1000_TIPG == 1040
\* IPGT(10) | IPGR1(10) | IPGR2(10) = 10 | 10 << 10 | 10 << 20
E1000_TIPG_SET_10 == <<160, 10250>>
E1000_IMS == 208
\* E1000_IMS_RXSEQ | E1000_IMS_RXO | E1000_IMS_RXT0 | E1000_IMS_TXQE
E1000_IMS_SET == <<0, 202>>
E1000_RCTL == 256
\* E1000_RCTL_EN | E1000_RCTL_BAM | E1000_RCTL_BSIZE | 0x00000008
E1000_RCTL_SET == <<0, 32778>>
E1000_TDESC_CMD_EOP == 1
E1000_TDESC_CMD_IFCS == 2
E1000_TDESC_CMD_RS == 8
E1000_TDESC_STATUS_DONE_MASK == 1
\* sizeof(packbuf), sizeof(e1000_TBD), sizeof(e1000_RBD)
PACKBUF_SIZE == 2046
TBD_SIZE == 16
RBD_SIZE == 16

E1000Regs ==
    { E1000_CONTROL_REG, E1000_RDBAL, E1000_RDBAH, E1000_RDLEN, E1000_RDH,
      E1000_RDT, E1000_TDBAL, E1000_TDBAH, E1000_TDLEN, E1000_TDH, E1000_TDT,
      E1000_RECV_RAL0, E1000_RECV_RAH0, E1000_TCTL, E1000_TIPG, E1000_IMS,
      E1000_RCTL }

\* E1000_CONTROL_RST_BIT(cntrl), E1000_TDESC_STATUS_DONE(status): non-zero?
E1000_CONTROL_RST_BIT(cntrl) == WAnd(cntrl, E1000_CONTROL_RESET_MASK) # WZero
E1000_TDESC_STATUS_DONE(status) ==
    BitAndN(status, E1000_TDESC_STATUS_DONE_MASK, 8) # 0

\* ------------------------------------------- external services (xv6 kernel)

\* kalloc() hands out pages of PGSIZE bytes; the n-th page it returns, as a
\* kernel virtual address.  V2P subtracts KERNBASE (0x80000000).
PGSIZE == 4096
KallocBase == <<32832, 0>>
PageAddr(n) == WAdd(KallocBase, W(n * PGSIZE))
V2P(a) == <<a[1] - 32768, a[2]>>

\* the window the controller decodes its registers at, and its station MAC
\* 52:54:00:12:34:56 in Receive-Address-Low0 / -High0
DevMemBase == <<65212, 0>>
DevRAL0 == <<4608, 21586>>
DevRAH0 == <<32768, 22068>>
DevCtrl0 == <<0, 1>>


\* ------------------------------------------------------------------ state

VARIABLES
    pc,        \* where the kernel is: the function and step being executed
    panicmsg,  \* the message of the panic() that halted the kernel, or "none"
    pf,        \* the pcifunc handed to attachpcinic / attache1000 / inite1000
    fill,      \* the byte every page holds when kalloc() returns it
    nalloc,    \* pages handed out by kalloc() so far
    freed,     \* the addresses passed to kfree(), in order
    e,         \* the e1000 structure
    tbdmem,    \* the TX descriptor ring's memory, as 128 descriptors
    rbdmem,    \* the RX descriptor ring's memory, as 128 descriptors
    tbufmem,   \* the TX packet buffers' memory, by slot
    mmio,      \* the controller's registers
    macout,    \* the caller's macaddr buffer and the 2 bytes after it
    irqmask,   \* the 8259A interrupt mask
    ret,       \* <<v>> once inite1000 has returned v, <<>> before
    pkt,       \* sende1000's arguments pkt and len
    oldtail,   \* sende1000's local oldtail
    overrun,   \* bytes the last memmove wrote past the end of its packbuf
    nsent,     \* sende1000 calls that returned
    polls,     \* polls of the current hardware wait, modulo PollMod
    wstep      \* inite1000: the ring and control register writes made so far

drvvars == <<fill, nalloc, freed, e, tbdmem, rbdmem, tbufmem, mmio, macout,
             irqmask, ret, pkt, oldtail, overrun, nsent, polls, wstep>>

VARIABLES
    bus,       \* the functions on PCI bus 0: <<dev, func>> -> what is there
    cfg,       \* their configuration registers: <<dev, func, offset>> -> value
    cfgaddr,   \* the host bridge's CONFIG_ADDRESS latch (port 0xCF8)
    portlog,   \* the port accesses of the last pciconfread / pciconfwrite
    fdev,      \* pcienumbus: func.dev
    ffunc,     \* pcienumbus: f.func
    bhlc,      \* pcienumbus: bhlc
    totdev,    \* pcienumbus: totdev
    enumret,   \* <<n>> once pcienumbus has returned n, <<>> before
    visited,   \* the <<dev, func>> whose ID register pcienumbus asked for
    attached,  \* the <<dev, func>> attache1000 was called for, in order
    bar        \* pcienabledev: bar

pcivars == <<bus, cfg, cfgaddr, portlog, fdev, ffunc, bhlc, totdev, enumret,
             visited, attached, bar>>

VARIABLES
    nics,      \* nic.h: nic nics[1], the single registry slot
    handle,    \* the nic * the last getnicdevice call was given to fill in
    getret     \* <<r>> once getnicdevice has returned r, <<>> before

nicvars == <<nics, handle, getret>>

VARIABLES
    iparg,     \* sys_arp: the IP text of the last call, with its octets
    reqret,    \* <<r>> once sendrequest has returned r, <<>> before
    sysret,    \* <<r>> once sys_arp has returned r, <<>> before
    eth,       \* sendrequest: <<eth>> once initframe has built it, else <<>>
    txlog,     \* the sendpacket calls the last sys_arp call made
    arpresp,   \* the caller's response buffer after the last call
    cidx,      \* arpfrm.c: the index "c" of unpackmac and parseip
    rxq,       \* the frames the network has delivered to the NIC
    sizearg    \* sys_arp: <<size>> of the last call, <<>> before any

arpvars == <<iparg, reqret, sysret, eth, txlog, arpresp, cidx, rxq, sizearg>>

VARIABLES
    fmac,      \* <<mac>>: the 6 bytes the last unpackmac call was given
    fstr,      \* the macstr buffer after that call
    fback,     \* <<bytes>>: what packmac made of the text at fstr
    fip,       \* <<ip>>: the value the last parseip call was given
    ipstr,     \* parseip's output buffer
    pj,        \* parseip: j while it is in its copy loop
    pch,       \* parseip: arr[k] while it is in its copy loop
    iters,     \* iterations of the copy loop, modulo PollMod
    rframe,    \* <<eth>>: the frame the last parsereply call was given
    rmsg,      \* what that call printed before it returned
    resolved   \* <<text>>: the MAC text that call printed

frmvars ==
    <<fmac, fstr, fback, fip, ipstr, pj, pch, iters, rframe, rmsg, resolved>>

VARIABLES
    rxcalls,   \* recve1000 calls made
    rxlen,     \* the len argument of the last recve1000 call
    rxpkt,     \* the first bytes of the caller's pkt buffer after it
    rxret      \* <<r>> if that call returned a value r; recve1000 is void

rxvars == <<rxcalls, rxlen, rxpkt, rxret>>

netvars == <<nicvars, arpvars, frmvars, rxvars>>

\* ------------------------------------------------------- memory contents

FillWord(b) == <<b * 257, b * 257>>

\* an e1000_TBD / e1000_RBD in a page kalloc() returned, never written
JunkTBD(b) ==
    [addr |-> <<FillWord(b), FillWord(b)>>, len |-> b * 257, cso |-> b,
     cmd |-> b, sts |-> b, css |-> b, spc |-> b * 257]
JunkRBD(b) ==
    [addr0 |-> FillWord(b), addr1 |-> FillWord(b), len |-> b * 257,
     csm |-> b * 257, sts |-> b, err |-> b, spc |-> b * 257]
\* memset(tbd, 0, sizeof(e1000_TBD))
ZeroTBD ==
    [addr |-> <<WZero, WZero>>, len |-> 0, cso |-> 0, cmd |-> 0, sts |-> 0,
     css |-> 0, spc |-> 0]

\* A packet is [tag, len]: byte j of the packet with tag t is PktByte(t, j).
PktByte(t, j) == (t * 37 + j * (t + 1)) % 256

\* A packbuf's content is the list of the prefix writes made to it, newest
\* first and each longer than the one before: [n, tag, off] says that bytes
\* 0 .. n-1 hold bytes off .. off+n-1 of packet tag.  Bytes no write covers
\* hold the page's fill byte.
BufWrite(buf, n, t, off) ==
    IF n = 0 THEN buf
    ELSE <<[n |-> n, tag |-> t, off |-> off]>>
         \o SelectSeq(buf, LAMBDA l : l.n > n)

RECURSIVE BufByteFrom(_, _, _, _)
BufByteFrom(buf, k, j, b) ==
    IF k > Len(buf) THEN b
    ELSE IF buf[k].n > j THEN PktByte(buf[k].tag, buf[k].off + j)
    ELSE BufByteFrom(buf, k + 1, j, b)
\* byte j of the packbuf
BufByte(buf, j, b) == BufByteFrom(buf, 1, j, b)

Min(a, b) == IF a < b THEN a ELSE b


\* -------------------------------------------------------------- inite1000

\* the page kalloc() returns for the e1000 structure: nothing initialised
JunkE1000(b) ==
    [iobase |-> FillWord(b), membase |-> FillWord(b),
     irqline |-> b, irqpin |-> b,
     tbdhead |-> b * 16843009, tbdtail |-> b * 16843009,
     rbdhead |-> b * 16843009, rbdtail |-> b * 16843009,
     tbd |-> [i \in 0 .. E1000_TBD_SLOTS - 1 |-> FillWord(b)],
     rbd |-> [i \in 0 .. E1000_RBD_SLOTS - 1 |-> FillWord(b)],
     tbuf |-> [i \in 0 .. E1000_TBD_SLOTS - 1 |-> FillWord(b)],
     rbuf |-> [i \in 0 .. E1000_RBD_SLOTS - 1 |-> FillWord(b)],
     mac |-> [i \in 0 .. 5 |-> b]]

RECURSIVE BarScan(_, _, _, _)
\* the loop over pcif->regbase[i], from i on: the bases it leaves in the
\* structure and the panic it ran into, if any
BarScan(f, i, io, mem) ==
    IF i >= 6 THEN [iobase |-> io, membase |-> mem, panic |-> "none"]
    ELSE IF WLe(f.regbase[i], <<0, 65535>>)
         THEN [iobase |-> f.regbase[i], membase |-> mem,
               panic |-> IF f.regsize[i] # W(64)
                         THEN "I/O space BAR size != 64" ELSE "none"]
    ELSE IF f.regbase[i] # WZero
         THEN IF f.regsize[i] # W(Pow2(17))
              THEN [iobase |-> io, membase |-> f.regbase[i],
                    panic |-> "Mem space BAR size != 128KB"]
              ELSE BarScan(f, i + 1, io, f.regbase[i])
    ELSE BarScan(f, i + 1, io, mem)

\* lines 295-320: allocate the structure, pick the bases, record the IRQ
E1000BarSelect ==
    /\ UNCHANGED netvars
    /\ pc = "inite1000"
    /\ LET r == BarScan(pf, 0, e.iobase, e.membase)
           e1 == [e EXCEPT !.iobase = r.iobase, !.membase = r.membase]
       IN  IF r.panic # "none"
           THEN /\ pc' = "panic"
                /\ panicmsg' = r.panic
                /\ e' = e1
           ELSE IF r.iobase = WZero
           THEN /\ pc' = "panic"
                /\ panicmsg' = "Failed to find a valid I/O port base for the E1000"
                /\ e' = e1
           ELSE /\ pc' = "reset"
                /\ panicmsg' = panicmsg
                /\ e' = [e1 EXCEPT !.irqline = pf.irqline,
                                   !.irqpin = pf.irqpin,
                                   !.tbdhead = 0, !.tbdtail = 0,
                                   !.rbdhead = 0, !.rbdtail = 0]
    /\ nalloc' = nalloc + 1
    /\ UNCHANGED pcivars
    /\ UNCHANGED <<pf, fill, freed, tbdmem, rbdmem, tbufmem, mmio, macout,
                   irqmask, ret, pkt, oldtail, overrun, nsent, polls, wstep>>

\* lines 323-324: set the reset bit.  e1000regread / e1000regwrite access
\* membase + regaddr: that is a controller register only if membase is the
\* window the controller decodes; any other membase is a wild access.
E1000Reset ==
    /\ UNCHANGED netvars
    /\ pc = "reset"
    /\ IF e.membase # DevMemBase
       THEN /\ pc' = "wildmmio"
            /\ mmio' = mmio
       ELSE /\ pc' = "reset_poll"
            /\ mmio' = [mmio EXCEPT ![E1000_CONTROL_REG] =
                            WOr(@, E1000_CONTROL_RESET_MASK)]
    /\ UNCHANGED pcivars
    /\ UNCHANGED <<panicmsg, pf, fill, nalloc, freed, e, tbdmem, rbdmem,
                   tbufmem, macout, irqmask, ret, pkt, oldtail, overrun,
                   nsent, polls, wstep>>

\* lines 325-327: one turn of do { delay(3); } while (RST bit reads set)
E1000ResetPoll ==
    /\ UNCHANGED netvars
    /\ pc = "reset_poll"
    /\ IF E1000_CONTROL_RST_BIT(mmio[E1000_CONTROL_REG])
       THEN /\ pc' = pc
            /\ polls' = (polls + 1) % PollMod
       ELSE /\ pc' = "link"
            /\ polls' = 0
    /\ UNCHANGED pcivars
    /\ UNCHANGED <<panicmsg, pf, fill, nalloc, freed, e, tbdmem, rbdmem,
                   tbufmem, mmio, macout, irqmask, ret, pkt, oldtail,
                   overrun, nsent, wstep>>

\* the controller completes a reset: the reset bit self-clears
HwResetDone ==
    /\ UNCHANGED netvars
    /\ E1000_CONTROL_RST_BIT(mmio[E1000_CONTROL_REG])
    /\ mmio' = [mmio EXCEPT ![E1000_CONTROL_REG] =
                    WAnd(@, WNot(E1000_CONTROL_RESET_MASK))]
    /\ UNCHANGED pcivars
    /\ UNCHANGED <<pc, panicmsg, pf, fill, nalloc, freed, e, tbdmem, rbdmem,
                   tbufmem, macout, irqmask, ret, pkt, oldtail, overrun,
                   nsent, polls, wstep>>

\* byte k (0 = least significant) of a uint32_t
WByte(w, k) ==
    IF k = 0 THEN w[2] % 256
    ELSE IF k = 1 THEN w[2] \div 256
    ELSE IF k = 2 THEN w[1] % 256
    ELSE w[1] \div 256

\* lines 329-340: link up, read the station MAC, store it twice, format it
\* into the local macstr (unpackmac leaves its index 18 further on)
E1000Link ==
    /\ cidx' = cidx + 18
    /\ UNCHANGED <<nicvars, iparg, reqret, sysret, eth, txlog, arpresp, rxq,
                   sizearg, frmvars, rxvars>>
    /\ pc = "link"
    /\ LET cntrlreg == mmio[E1000_CONTROL_REG]
           macaddrl == mmio[E1000_RECV_RAL0]
           macaddrh == mmio[E1000_RECV_RAH0]
           \* (uint16_t)macaddrh, zero-extended to 32 bits
           h16 == <<0, macaddrh[2]>>
       IN  /\ mmio' = [mmio EXCEPT ![E1000_CONTROL_REG] =
                           WOr(WOr(cntrlreg, E1000_CONTROL_ASDE_MASK),
                               E1000_CONTROL_SLUP_MASK)]
           /\ e' = [e EXCEPT !.mac =
                       [i \in 0 .. 5 |-> IF i < 4 THEN WByte(macaddrl, i)
                                         ELSE WByte(h16, i - 4)]]
           \* *(uint32_t *)macaddr, then *(uint32_t *)(&macaddr[4])
           /\ macout' = [i \in 0 .. 7 |-> IF i < 4 THEN WByte(macaddrl, i)
                                          ELSE WByte(h16, i - 4)]
    /\ pc' = "txring"
    /\ UNCHANGED pcivars
    /\ UNCHANGED <<panicmsg, pf, fill, nalloc, freed, tbdmem, rbdmem,
                   tbufmem, irqmask, ret, pkt, oldtail, overrun, nsent,
                   polls, wstep>>


\* offsets into a page at which the allocator may place a descriptor ring
\* (xv6's kalloc() returns page starts; the allocator is an external service)
AllocOffsets == {0, 8}

\* (V2P(p) & 0x0000000f) != 0
Misaligned(p) == And16(Lo(V2P(p)), 15) # 0

\* lines 343-351: the TX descriptor ring
E1000TxRing ==
    /\ UNCHANGED netvars
    /\ pc = "txring"
    /\ \E off \in AllocOffsets :
         LET start == WAdd(PageAddr(nalloc), W(off))
             \* ttmp after the loop's 128 increments
             ttmp == WAdd(start, W(E1000_TBD_SLOTS * TBD_SIZE))
             e1 == [e EXCEPT !.tbd = [i \in 0 .. E1000_TBD_SLOTS - 1 |->
                                         WAdd(start, W(i * TBD_SIZE))]]
         IN  /\ e' = e1
             /\ IF Misaligned(e1.tbd[0])
                THEN /\ freed' = Append(freed, ttmp)
                     /\ ret' = <<-1>>
                     /\ pc' = "initfail"
                ELSE /\ freed' = freed
                     /\ ret' = ret
                     /\ pc' = "rxring"
    /\ nalloc' = nalloc + 1
    /\ UNCHANGED pcivars
    /\ UNCHANGED <<panicmsg, pf, fill, tbdmem, rbdmem, tbufmem, mmio, macout,
                   irqmask, pkt, oldtail, overrun, nsent, polls, wstep>>

\* lines 353-361: the RX descriptor ring
E1000RxRing ==
    /\ UNCHANGED netvars
    /\ pc = "rxring"
    /\ \E off \in AllocOffsets :
         LET start == WAdd(PageAddr(nalloc), W(off))
             rtmp == WAdd(start, W(E1000_RBD_SLOTS * RBD_SIZE))
             e1 == [e EXCEPT !.rbd = [i \in 0 .. E1000_RBD_SLOTS - 1 |->
                                         WAdd(start, W(i * RBD_SIZE))]]
         IN  /\ e' = e1
             /\ IF Misaligned(e1.rbd[0])
                THEN /\ freed' = Append(freed, rtmp)
                     /\ ret' = <<-1>>
                     /\ pc' = "initfail"
                ELSE /\ freed' = freed
                     /\ ret' = ret
                     /\ pc' = "buffers"
    /\ nalloc' = nalloc + 1
    /\ UNCHANGED pcivars
    /\ UNCHANGED <<panicmsg, pf, fill, tbdmem, rbdmem, tbufmem, mmio, macout,
                   irqmask, pkt, oldtail, overrun, nsent, polls, wstep>>

\* a loop that hands both slots of a pair the page start (no tmp++)
PackBufAddrNoStep(n0, i) == PageAddr(n0 + (i \div 2))

\* the packbuf of slot i when the loop's first page is page n0: two packbufs
\* to a page, the second right behind the first (tmp++)
PackBufAddr(n0, i) ==
    WAdd(PageAddr(n0 + (i \div 2)), W((i % 2) * PACKBUF_SIZE))

\* picenable(irq): picsetmask(irqmask & ~(1 << irq))
PicEnable(mask, irq) == And16(mask, Not16(Pow2(irq)))

\* lines 385-398: the register writes, in program order
ProgramWrites(d) ==
    << [reg |-> E1000_TDBAL, val |-> V2P(d.tbd[0])],
       [reg |-> E1000_TDBAH, val |-> WZero],
       [reg |-> E1000_TDLEN, val |-> W((E1000_TBD_SLOTS * 16) * Pow2(7))],
       [reg |-> E1000_TDH, val |-> WZero],
       [reg |-> E1000_TCTL,
        val |-> WOr(WOr(E1000_TCTL_EN, E1000_TCTL_PSP),
                    WOr(E1000_TCTL_CT_SET_0f, E1000_TCTL_COLD_SET_200))],
       [reg |-> E1000_TDT, val |-> WZero],
       [reg |-> E1000_TIPG, val |-> E1000_TIPG_SET_10],
       [reg |-> E1000_RDBAL, val |-> V2P(d.rbd[0])],
       [reg |-> E1000_RDBAH, val |-> WZero],
       [reg |-> E1000_RDLEN, val |-> W((E1000_RBD_SLOTS * 16) * Pow2(7))],
       [reg |-> E1000_RDH, val |-> WZero],
       [reg |-> E1000_RDT, val |-> WZero],
       [reg |-> E1000_IMS, val |-> E1000_IMS_SET],
       [reg |-> E1000_RCTL, val |-> E1000_RCTL_SET] >>

\* lines 363-382: the packet buffers, two to a page, and the RX descriptors'
\* buffer addresses
E1000Buffers ==
    /\ UNCHANGED netvars
    /\ pc = "buffers"
    /\ LET nrx == nalloc
           ntx == nalloc + (E1000_RBD_SLOTS \div 2)
           e1 == [e EXCEPT
                    !.rbuf = [i \in 0 .. E1000_RBD_SLOTS - 1 |->
                                 PackBufAddr(nrx, i)],
                    !.tbuf = [i \in 0 .. E1000_TBD_SLOTS - 1 |->
                                 PackBufAddr(ntx, i)]]
       IN  /\ e' = e1
           /\ rbdmem' = [i \in 0 .. E1000_RBD_SLOTS - 1 |->
                            [rbdmem[i] EXCEPT !.addr0 = V2P(e1.rbuf[i]),
                                              !.addr1 = WZero]]
    /\ nalloc' = nalloc + (E1000_RBD_SLOTS \div 2) + (E1000_TBD_SLOTS \div 2)
    /\ pc' = "program"
    /\ UNCHANGED pcivars
    /\ UNCHANGED <<panicmsg, pf, fill, freed, tbdmem, tbufmem, mmio, macout,
                   irqmask, ret, pkt, oldtail, overrun, nsent, polls, wstep>>

\* lines 385-398: the next e1000regwrite of the sequence
E1000Program ==
    /\ UNCHANGED netvars
    /\ pc = "program"
    /\ LET w == ProgramWrites(e)[wstep + 1]
       IN  mmio' = [mmio EXCEPT ![w.reg] = w.val]
    /\ wstep' = wstep + 1
    /\ pc' = IF wstep + 1 = Len(ProgramWrites(e)) THEN "unmask" ELSE pc
    /\ UNCHANGED pcivars
    /\ UNCHANGED <<panicmsg, pf, fill, nalloc, freed, e, tbdmem, rbdmem,
                   tbufmem, macout, irqmask, ret, pkt, oldtail, overrun,
                   nsent, polls>>

\* lines 402-407: unmask the interrupt line, hand the driver out, return 0
E1000Unmask ==
    /\ UNCHANGED netvars
    /\ pc = "unmask"
    /\ irqmask' = PicEnable(irqmask, e.irqline)
    /\ ret' = <<0>>
    /\ pc' = "idle"
    /\ UNCHANGED pcivars
    /\ UNCHANGED <<panicmsg, pf, fill, nalloc, freed, e, tbdmem, rbdmem,
                   tbufmem, mmio, macout, pkt, oldtail, overrun, nsent,
                   polls, wstep>>

\* -------------------------------------------------------------- sende1000

\* packets the caller submits: an ARP frame (sizeof(eth_head) - 2 bytes), a
\* packet filling a packbuf, and one byte more than a packbuf holds
Packets ==
    { [tag |-> 1, len |-> 42], [tag |-> 2, len |-> PACKBUF_SIZE],
      [tag |-> 3, len |-> PACKBUF_SIZE + 1] }
NoPacket == [tag |-> 0, len |-> 0]

\* a memmove that stops one byte short
MemmoveOneShort(mem, bufs, t, p) ==
    [mem EXCEPT ![t] = BufWrite(@, Min(p.len, PACKBUF_SIZE) - 1, p.tag, 0)]

\* memmove(tbuf[t], pkt, len): the bytes that fit go to packbuf t; the rest
\* run on into the memory behind it, which is packbuf t + 1 when that is
\* where packbuf t + 1 was placed
MemmoveToTbuf(mem, bufs, t, p) ==
    LET fit == Min(p.len, PACKBUF_SIZE)
        m1 == [mem EXCEPT ![t] = BufWrite(@, fit, p.tag, 0)]
    IN  IF p.len > PACKBUF_SIZE /\ t + 1 < E1000_TBD_SLOTS
           /\ bufs[t + 1] = WAdd(bufs[t], W(PACKBUF_SIZE))
        THEN [m1 EXCEPT ![t + 1] =
                 BufWrite(@, Min(p.len - PACKBUF_SIZE, PACKBUF_SIZE),
                          p.tag, PACKBUF_SIZE)]
        ELSE m1

\* E1000_TDESC_CMD_RS | E1000_TDESC_CMD_EOP | E1000_TDESC_CMD_IFCS
SendCmd ==
    BitOrN(BitOrN(E1000_TDESC_CMD_RS, E1000_TDESC_CMD_EOP, 8),
           E1000_TDESC_CMD_IFCS, 8)

\* a tail that wraps one slot late
NextTailLate(t) == (t + 1) % (E1000_TBD_SLOTS + 1)

\* the index after t in the software ring
NextTail(t) == (t + 1) % E1000_TBD_SLOTS

\* the descriptor sende1000 writes for a packet of len bytes in buffer buf
FilledTBD(buf, len) ==
    [ZeroTBD EXCEPT !.addr = <<WZero, V2P(buf)>>, !.len = len,
                    !.cmd = SendCmd, !.cso = 0]

\* lines 275-283: fill the tail slot's buffer and descriptor
SendFill ==
    /\ UNCHANGED netvars
    /\ pc = "idle"
    /\ nsent < MaxSends
    /\ \E p \in Packets :
         /\ nsent < MaxFree \/ p = pkt
         /\ pkt' = p
         /\ tbdmem' = [tbdmem EXCEPT ![e.tbdtail] =
                           FilledTBD(e.tbuf[e.tbdtail], p.len)]
         /\ tbufmem' = MemmoveToTbuf(tbufmem, e.tbuf, e.tbdtail, p)
         /\ overrun' = p.len - Min(p.len, PACKBUF_SIZE)
    /\ nalloc' = nalloc + 1
    /\ pc' = "send_tail"
    /\ UNCHANGED pcivars
    /\ UNCHANGED <<panicmsg, pf, fill, freed, e, rbdmem, mmio, macout,
                   irqmask, ret, oldtail, nsent, polls, wstep>>

\* lines 284-286: remember the tail, advance it, tell the controller
SendTail ==
    /\ UNCHANGED netvars
    /\ pc = "send_tail"
    /\ oldtail' = e.tbdtail
    /\ e' = [e EXCEPT !.tbdtail = NextTail(e.tbdtail)]
    /\ mmio' = [mmio EXCEPT ![E1000_TDT] = W(NextTail(e.tbdtail))]
    /\ pc' = "send_poll"
    /\ UNCHANGED pcivars
    /\ UNCHANGED <<panicmsg, pf, fill, nalloc, freed, tbdmem, rbdmem,
                   tbufmem, macout, irqmask, ret, pkt, overrun, nsent,
                   polls, wstep>>

\* lines 288-291: one turn of while (!DONE(tbd[oldtail]->sts)) delay(2);
SendPoll ==
    /\ UNCHANGED netvars
    /\ pc = "send_poll"
    /\ IF E1000_TDESC_STATUS_DONE(tbdmem[oldtail].sts)
       THEN /\ pc' = "idle"
            /\ nsent' = nsent + 1
            /\ polls' = 0
       ELSE /\ pc' = pc
            /\ nsent' = nsent
            /\ polls' = (polls + 1) % PollMod
    /\ UNCHANGED pcivars
    /\ UNCHANGED <<panicmsg, pf, fill, nalloc, freed, e, tbdmem, rbdmem,
                   tbufmem, mmio, macout, irqmask, ret, pkt, oldtail,
                   overrun, wstep>>

\* ---------------------------------------------------------- the controller

WVal(w) == w[1] * 65536 + w[2]
\* descriptors in the ring the controller walks: TDLEN bytes of 16 each
HwTxSlots == WVal(mmio[E1000_TDLEN]) \div 16
HwTxEnabled == WAnd(mmio[E1000_TCTL], E1000_TCTL_EN) # WZero

\* the controller sends the descriptor at its head, writes DONE back into
\* its status (Report-Status set) and advances its head
HwTxDone ==
    /\ UNCHANGED netvars
    /\ HwTxEnabled
    /\ mmio[E1000_TDH] # mmio[E1000_TDT]
    /\ WVal(mmio[E1000_TDH]) < E1000_TBD_SLOTS
    /\ LET h == WVal(mmio[E1000_TDH])
       IN  /\ tbdmem' = [tbdmem EXCEPT ![h].sts =
                 IF BitAndN(tbdmem[h].cmd, E1000_TDESC_CMD_RS, 8) # 0
                 THEN BitOrN(@, E1000_TDESC_STATUS_DONE_MASK, 8) ELSE @]
           /\ mmio' = [mmio EXCEPT ![E1000_TDH] = W((h + 1) % HwTxSlots)]
    /\ UNCHANGED pcivars
    /\ UNCHANGED <<pc, panicmsg, pf, fill, nalloc, freed, e, rbdmem, tbufmem,
                   macout, irqmask, ret, pkt, oldtail, overrun, nsent, polls,
                   wstep>>

\* its head is past the 128 descriptors software keeps: the controller walks
\* the memory behind the ring page as descriptors until its ring wraps
HwTxOutside ==
    /\ UNCHANGED netvars
    /\ HwTxEnabled
    /\ mmio[E1000_TDH] # mmio[E1000_TDT]
    /\ WVal(mmio[E1000_TDH]) >= E1000_TBD_SLOTS
    /\ mmio' = [mmio EXCEPT ![E1000_TDH] = WZero]
    /\ UNCHANGED pcivars
    /\ UNCHANGED <<pc, panicmsg, pf, fill, nalloc, freed, e, tbdmem, rbdmem,
                   tbufmem, macout, irqmask, ret, pkt, oldtail, overrun,
                   nsent, polls, wstep>>


\* ---------------------------------------------------- PCI configuration

\* pci.h
MAX_DEV_PER_PCI_BUS == 32
PCI_CONF_ADDR_IOPORT == 3320
PCI_CONF_DATA_IOPORT == 3324

\* pciregs.h: register offsets and field extractors
PCI_ID_REG == 0
PCI_COMMAND_STATUS_REG == 4
PCI_CLASS_REG == 8
PCI_BHLC_REG == 12
PCI_MAPREG_START == 16
PCI_MAPREG_END == 40
PCI_INTERRUPT_REG == 60
\* PCI_COMMAND_IO_ENABLE | PCI_COMMAND_MEM_ENABLE | PCI_COMMAND_MASTER_ENABLE
PCI_COMMAND_ENABLES == <<0, 7>>
PCI_DEVICE_CLASS_NETWORK_CONTROLLER == 2
PCI_MAPREG_TYPE_MEM == 0
PCI_MAPREG_MEM_TYPE_64BIT == 4
PCI_VENDOR(id) == Lo(id)
PCI_PRODUCT(id) == Hi(id)
PCI_CLASS(cr) == Hi(cr) \div 256
PCI_HDRTYPE(b) == Hi(b) % 256
PCI_HDRTYPE_TYPE(b) == PCI_HDRTYPE(b) % 128
PCI_HDRTYPE_MULTIFN(b) == PCI_HDRTYPE(b) \div 128 = 1
PCI_INTERRUPT_LINE(i) == Lo(i) % 256
PCI_INTERRUPT_PIN(i) == Lo(i) \div 256
PCI_MAPREG_NUM(off) == (off - PCI_MAPREG_START) \div 4
PCI_MAPREG_TYPE(mr) == Lo(mr) % 2
PCI_MAPREG_MEM_TYPE(mr) == And16(Lo(mr), 6)
PCI_MAPREG_MEM_ADDR(mr) == WAnd(mr, <<65535, 65520>>)
PCI_MAPREG_MEM_SIZE(mr) == WNeg(PCI_MAPREG_MEM_ADDR(mr))
PCI_MAPREG_IO_ADDR(mr) == WAnd(mr, <<65535, 65532>>)
PCI_MAPREG_IO_SIZE(mr) == WNeg(PCI_MAPREG_IO_ADDR(mr))

\* the configuration registers a function implements; every other offset
\* reads as zero
CfgOffsets == {0, 4, 8, 12, 16, 20, 24, 28, 32, 36, 60}

\* a register: its value out of reset and the bits software can write
Reg(v, m) == [val |-> v, mask |-> m]
NoBar == [val |-> WZero, mask |-> WZero, type |-> "none"]
MemBar(base, size) == [val |-> base, mask |-> WNeg(size), type |-> "mem"]
Mem64Bar(base, size) ==
    [val |-> WOr(base, <<0, 4>>), mask |-> WNeg(size), type |-> "mem64"]
UpperBar == [val |-> WZero, mask |-> WOnes, type |-> "upper"]
IoBar(base, size) ==
    [val |-> WOr(base, <<0, 1>>), mask |-> WNeg(size), type |-> "io"]

\* a function's configuration header: ID, status (command is 0 out of
\* reset), class, BHLC, interrupt and the first three BARs
Header(id, status, cls, hdr, intr, b0, b1, b2) ==
    [off \in CfgOffsets |->
        IF off = PCI_ID_REG THEN Reg(id, WZero)
        ELSE IF off = PCI_COMMAND_STATUS_REG THEN Reg(<<status, 0>>, <<0, 1351>>)
        ELSE IF off = PCI_CLASS_REG THEN Reg(cls, WZero)
        ELSE IF off = PCI_BHLC_REG THEN Reg(hdr, <<0, 255>>)
        ELSE IF off = PCI_INTERRUPT_REG THEN Reg(intr, <<0, 255>>)
        ELSE IF off = 16 THEN [val |-> b0.val, mask |-> b0.mask]
        ELSE IF off = 20 THEN [val |-> b1.val, mask |-> b1.mask]
        ELSE IF off = 24 THEN [val |-> b2.val, mask |-> b2.mask]
        ELSE Reg(WZero, WZero)]

\* the BARs of each kind of function, by BAR number
KindBars ==
    [ host    |-> <<NoBar, NoBar, NoBar>>,
      isa     |-> <<NoBar, NoBar, NoBar>>,
      ide     |-> <<NoBar, NoBar, NoBar>>,
      cardbus |-> <<NoBar, NoBar, NoBar>>,
      \* the 82540EM: 128 KiB of registers, 64 bytes of I/O
      e1000   |-> <<MemBar(DevMemBase, W(131072)), IoBar(W(49152), W(64)),
                    NoBar>>,
      \* the same with the capability-list bit in its status register
      e1000c  |-> <<MemBar(DevMemBase, W(131072)), IoBar(W(49152), W(64)),
                    NoBar>>,
      \* a 16-byte memory BAR at 0x1000
      e1000s  |-> <<MemBar(W(4096), W(16)), NoBar, NoBar>>,
      \* a 64-bit memory BAR, then the I/O BAR
      e1000q  |-> <<Mem64Bar(DevMemBase, W(131072)), UpperBar,
                    IoBar(W(49152), W(64))>>,
      \* the I/O BAR first
      e1000i  |-> <<IoBar(W(49152), W(64)), MemBar(DevMemBase, W(131072)),
                    NoBar>> ]

NicHeader(status, bars) ==
    Header(<<4110, 32902>>, status, <<512, 3>>, WZero, <<0, 267>>,
           bars[1], bars[2], bars[3])

Kind ==
    [ host    |-> Header(<<4663, 32902>>, 0, <<1536, 2>>, WZero, WZero,
                         NoBar, NoBar, NoBar),
      isa     |-> Header(<<28672, 32902>>, 512, <<1537, 0>>, <<128, 0>>,
                         WZero, NoBar, NoBar, NoBar),
      ide     |-> Header(<<28688, 32902>>, 640, <<257, 32768>>, WZero, WZero,
                         NoBar, NoBar, NoBar),
      cardbus |-> Header(<<44086, 4172>>, 0, <<1543, 0>>, <<2, 0>>, WZero,
                         NoBar, NoBar, NoBar),
      e1000   |-> NicHeader(0, KindBars.e1000),
      e1000c  |-> NicHeader(16, KindBars.e1000c),
      e1000s  |-> NicHeader(0, KindBars.e1000s),
      e1000q  |-> NicHeader(0, KindBars.e1000q),
      e1000i  |-> NicHeader(0, KindBars.e1000i) ]

NicKinds == {"e1000", "e1000c", "e1000s", "e1000q", "e1000i"}

\* bus 0 of a QEMU PC with the NIC of kind k in slot d
BusWithNic(k, d) ==
    [key \in {<<0, 0>>, <<1, 0>>, <<1, 1>>, <<4, 0>>, <<d, 0>>} |->
        IF key = <<d, 0>> THEN k
        ELSE IF key = <<0, 0>> THEN "host"
        ELSE IF key = <<1, 0>> THEN "isa"
        ELSE IF key = <<1, 1>> THEN "ide"
        ELSE "cardbus"]
BusEmpty == [key \in {} |-> "host"]

\* configuration space out of reset
CfgReset(b) == [key \in DOMAIN b |-> [off \in CfgOffsets |-> Kind[b[key]][off].val]]

\* CONFIG_ADDRESS fields
AddrEnabled(a) == Hi(a) >= 32768
AddrBus(a) == Hi(a) % 256
AddrKey(a) == <<Lo(a) \div 2048, (Lo(a) \div 256) % 8>>
AddrOff(a) == (Lo(a) % 256) - (Lo(a) % 4)
Decoded(a) == AddrEnabled(a) /\ AddrBus(a) = 0 /\ AddrKey(a) \in DOMAIN bus

\* a read of CONFIG_DATA with a in CONFIG_ADDRESS
CfgRead(c, a) ==
    IF ~Decoded(a) THEN WOnes
    ELSE IF AddrOff(a) \in CfgOffsets THEN c[AddrKey(a)][AddrOff(a)]
    ELSE WZero

\* a write of v to CONFIG_DATA with a in CONFIG_ADDRESS
CfgWrite(c, a, v) ==
    IF Decoded(a) /\ AddrOff(a) \in CfgOffsets
    THEN LET m == Kind[bus[AddrKey(a)]][AddrOff(a)].mask
         IN  [c EXCEPT ![AddrKey(a)][AddrOff(a)] =
                          WOr(WAnd(@, WNot(m)), WAnd(v, m))]
    ELSE c

\* the ports: ps is [cfg, addr, log]
Outl(ps, port, v) ==
    IF port = PCI_CONF_ADDR_IOPORT THEN [ps EXCEPT !.addr = v]
    ELSE IF port = PCI_CONF_DATA_IOPORT
    THEN [ps EXCEPT !.cfg = CfgWrite(ps.cfg, ps.addr, v)]
    ELSE ps
Inl(ps, port) ==
    IF port = PCI_CONF_DATA_IOPORT THEN CfgRead(ps.cfg, ps.addr)
    ELSE IF port = PCI_CONF_ADDR_IOPORT THEN ps.addr
    ELSE WOnes
Ports == [cfg |-> cfg, addr |-> cfgaddr, log |-> <<>>]

\* ------------------------------------------------------------------ pci.c

pciconfigformaddr(busaddr, devaddr, funcaddr, offset) ==
    WOr(<<32768, 0>>,
        WOr(<<busaddr % 65536, 0>>,
            WOr(W(devaddr * 2048), WOr(W(funcaddr * 256), W(offset)))))

\* rootbus.busnum after pciinit's memset
RootBusNum == 0

\* returns [ps, val]; the log entry holds the port accesses made, the value
\* returned, the register the formed address names and whether configuration
\* space is as it was
pciconfread(ps, f, offset) ==
    LET val == pciconfigformaddr(RootBusNum, f.dev, f.func, offset)
        p1 == Outl(ps, PCI_CONF_DATA_IOPORT, val)
        r == Inl(p1, PCI_CONF_DATA_IOPORT)
    IN  [ps |-> [p1 EXCEPT !.log = Append(@,
                   [call |-> "pciconfread", addr |-> val,
                    ops |-> << <<"outl", PCI_CONF_DATA_IOPORT, val>>,
                               <<"inl", PCI_CONF_DATA_IOPORT, r>> >>,
                    ret |-> r, reg |-> CfgRead(ps.cfg, val),
                    same |-> p1.cfg = ps.cfg])],
         val |-> r]

pciconfwrite(ps, f, offset, v) ==
    LET address == pciconfigformaddr(RootBusNum, f.dev, f.func, offset)
        p1 == Outl(ps, PCI_CONF_ADDR_IOPORT, address)
        p2 == Outl(p1, PCI_CONF_DATA_IOPORT, v)
    IN  [p2 EXCEPT !.log = Append(@,
           [call |-> "pciconfwrite", addr |-> address,
            ops |-> << <<"outl", PCI_CONF_ADDR_IOPORT, address>>,
                       <<"outl", PCI_CONF_DATA_IOPORT, v>> >>,
            ret |-> v, reg |-> CfgRead(ps.cfg, address),
            same |-> p2.cfg = ps.cfg])]

SetPorts(ps) ==
    /\ cfg' = ps.cfg
    /\ cfgaddr' = ps.addr
    /\ portlog' = ps.log

\* the pcifunc of pcienumbus's memset: no BAR decoded yet
NoRegs == [i \in 0 .. 5 |-> WZero]
NullFunc ==
    [dev |-> 0, func |-> 0, devid |-> WZero, devcls |-> WZero,
     regbase |-> NoRegs, regsize |-> NoRegs, irqline |-> 0, irqpin |-> 0]

\* pcienabledev, lines 42-44: enable the function, print its command register
PciEnableCmd ==
    /\ UNCHANGED netvars
    /\ pc = "pcienabledev"
    /\ LET p1 == pciconfwrite(Ports, pf, PCI_COMMAND_STATUS_REG,
                              PCI_COMMAND_ENABLES)
           r == pciconfread(p1, pf, PCI_COMMAND_STATUS_REG)
       IN  SetPorts(r.ps)
    /\ bar' = PCI_MAPREG_START
    /\ pc' = "pcienablebar"
    /\ UNCHANGED <<panicmsg, pf, drvvars, bus, fdev, ffunc, bhlc, totdev,
                   enumret, visited, attached>>

\* pcienabledev, lines 53-79: decode the BAR at offset bar from the value
\* read before the probe (oldv) and after it (rv), and restore it
BarDecode(oldv, rv, ps) ==
    LET regnum == PCI_MAPREG_NUM(bar)
        ismem == PCI_MAPREG_TYPE(rv) = PCI_MAPREG_TYPE_MEM
        barwidth ==
            IF rv # WZero /\ ismem
               /\ PCI_MAPREG_MEM_TYPE(rv) = PCI_MAPREG_MEM_TYPE_64BIT
            THEN 8 ELSE 4
        size == IF ismem THEN PCI_MAPREG_MEM_SIZE(rv)
                ELSE PCI_MAPREG_IO_SIZE(rv)
        base == IF ismem THEN PCI_MAPREG_MEM_ADDR(oldv)
                ELSE PCI_MAPREG_IO_ADDR(oldv)
    IN  /\ IF rv = WZero
           THEN /\ SetPorts(ps)
                /\ pf' = pf
           ELSE /\ SetPorts(pciconfwrite(ps, pf, bar, oldv))
                /\ pf' = [pf EXCEPT !.regbase[regnum] = base,
                                    !.regsize[regnum] = size]
        /\ bar' = bar + barwidth
        /\ pc' = IF bar + barwidth < PCI_MAPREG_END THEN "pcienablebar"
                 ELSE "inite1000"

\* pcienabledev, lines 51-52: write all-ones, read the BAR back
BarProbe(r1) ==
    LET r3 == pciconfread(pciconfwrite(r1.ps, pf, bar, WOnes), pf, bar)
    IN  BarDecode(r1.val, r3.val, r3.ps)

\* pcienabledev, lines 48-80: one iteration of the BAR loop; when the loop
\* ends attache1000 goes on to call inite1000
PciEnableBar ==
    /\ UNCHANGED netvars
    /\ pc = "pcienablebar"
    /\ bar < PCI_MAPREG_END
    /\ BarProbe(pciconfread(Ports, pf, bar))
    /\ UNCHANGED <<panicmsg, drvvars, bus, fdev, ffunc, bhlc, totdev, enumret,
                   visited, attached>>

attachpcivendbase ==
    << [key0 |-> 32902, key1 |-> 4110, atchfunc |-> "attache1000"] >>

\* f.func++ and the loop tests of lines 125 and 118
NextFunc ==
    IF ffunc + 1 < (IF PCI_HDRTYPE_MULTIFN(bhlc) THEN 8 ELSE 1)
    THEN /\ ffunc' = ffunc + 1
         /\ fdev' = fdev
         /\ pc' = "enumfunc"
    ELSE /\ ffunc' = ffunc
         /\ fdev' = fdev + 1
         /\ pc' = "enumdev"

\* attachpcinic: scan the table; a match calls attache1000, which starts
\* with pcienabledev
AttachPciNic ==
    /\ UNCHANGED netvars
    /\ pc = "attachpcinic"
    /\ LET vendid == PCI_VENDOR(pf.devid)
           prodid == PCI_PRODUCT(pf.devid)
           hits == { i \in DOMAIN attachpcivendbase :
                       /\ attachpcivendbase[i].key0 = vendid
                       /\ attachpcivendbase[i].key1 = prodid }
       IN  IF hits # {}
           THEN /\ attached' = Append(attached, <<pf.dev, pf.func>>)
                /\ pc' = "pcienabledev"
                /\ UNCHANGED <<fdev, ffunc>>
           ELSE /\ attached' = attached
                /\ NextFunc
    /\ UNCHANGED <<panicmsg, pf, drvvars, bus, cfg, cfgaddr, portlog, bhlc,
                   totdev, enumret, visited, bar>>

\* pcienumbus, lines 118-122: one device number
EnumDev ==
    /\ UNCHANGED netvars
    /\ pc = "enumdev"
    /\ fdev < MAX_DEV_PER_PCI_BUS
    /\ LET r == pciconfread(Ports, [dev |-> fdev, func |-> 0], PCI_BHLC_REG)
       IN  /\ SetPorts(r.ps)
           /\ bhlc' = r.val
           /\ IF PCI_HDRTYPE_TYPE(r.val) > 1
              THEN /\ fdev' = fdev + 1
                   /\ UNCHANGED <<pc, totdev, ffunc>>
              ELSE /\ totdev' = totdev + 1
                   /\ ffunc' = 0
                   /\ pc' = "enumfunc"
                   /\ fdev' = fdev
    /\ UNCHANGED <<panicmsg, pf, drvvars, bus, enumret, visited, attached,
                   bar>>

\* pcienumbus, lines 126-137: one function of the device
EnumFunc ==
    /\ UNCHANGED netvars
    /\ pc = "enumfunc"
    /\ LET f == [dev |-> fdev, func |-> ffunc]
           r1 == pciconfread(Ports, f, PCI_ID_REG)
           r2 == pciconfread(r1.ps, f, PCI_INTERRUPT_REG)
           r3 == pciconfread(r2.ps, f, PCI_CLASS_REG)
       IN  /\ visited' = visited \cup {<<fdev, ffunc>>}
           /\ IF PCI_VENDOR(r1.val) = 65535
              THEN /\ SetPorts(r1.ps)
                   /\ pf' = pf
                   /\ NextFunc
              ELSE /\ SetPorts(r3.ps)
                   /\ pf' = [dev |-> fdev, func |-> ffunc,
                             devid |-> r1.val, devcls |-> r3.val,
                             regbase |-> NoRegs, regsize |-> NoRegs,
                             irqline |-> PCI_INTERRUPT_LINE(r2.val),
                             irqpin |-> PCI_INTERRUPT_PIN(r2.val)]
                   /\ IF PCI_CLASS(r3.val)
                           = PCI_DEVICE_CLASS_NETWORK_CONTROLLER
                      THEN /\ pc' = "attachpcinic"
                           /\ UNCHANGED <<fdev, ffunc>>
                      ELSE NextFunc
    /\ UNCHANGED <<panicmsg, drvvars, bus, bhlc, totdev, enumret, attached,
                   bar>>

\* pcienumbus, line 140
EnumReturn ==
    /\ UNCHANGED netvars
    /\ pc = "enumdev"
    /\ fdev = MAX_DEV_PER_PCI_BUS
    /\ enumret' = <<totdev>>
    /\ pc' = "enumdone"
    /\ UNCHANGED <<panicmsg, pf, drvvars, bus, cfg, cfgaddr, portlog, fdev,
                   ffunc, bhlc, totdev, visited, attached, bar>>

\* ------------------------------------------------------------------ nic.c

\* function pointers and driver instances are named; 0 is "null"
ZeroMac == [i \in 0 .. 5 |-> 0]
\* nics[0] before any regnicdevice call: a global, so all bytes zero
ZeroNic ==
    [drvr |-> "null", macaddr |-> ZeroMac, sendpacket |-> "null",
     recvpacket |-> "null"]

\* void regnicdevice(nic d) { nics[0] = d; }
regnicdevice(d) == d

\* a getnicdevice that tests the send pointer only
getnicdeviceSendOnly(reg, intrfc, d) ==
    IF reg.sendpacket = "null" THEN [ret |-> -1, d |-> d]
    ELSE [ret |-> 0, d |-> "&nics[0]"]

\* int getnicdevice(char * intrfc, nic ** d): the value returned and what *d
\* holds afterwards
getnicdevice(reg, intrfc, d) ==
    IF reg.sendpacket = "null" \/ reg.recvpacket = "null"
    THEN [ret |-> -1, d |-> d]
    ELSE [ret |-> 0, d |-> "&nics[0]"]

\* the registry before anything is registered; no lookup made yet
\* the last index of the model's text buffers: an 18-byte buffer and the 18
\* bytes behind it
MacBufTop == 35
FreshBuf == [n \in 0 .. MacBufTop |-> "?"]

IpArg(t, o) == [text |-> t, octets |-> o]
IpArgs ==
    { IpArg(<<"1", "9", "2", ".", "1", "6", "8", ".", "2", ".", "1">>,
            <<192, 168, 2, 1>>),
      IpArg(<<"1", ".", "2", ".", "3", ".", "4">>, <<1, 2, 3, 4>>),
      IpArg(<<"1", ".", "2", "2", ".", "3", "3", ".", "4", "4">>,
            <<1, 22, 33, 44>>) }

\* no arp call made yet, nothing received
InitArpCalls ==
    /\ iparg = IpArg(<<>>, <<>>)
    /\ reqret = <<>>
    /\ sysret = <<>>
    /\ eth = <<>>
    /\ txlog = <<>>
    /\ arpresp = FreshBuf
    /\ cidx = 0
    /\ rxq = <<>>
    /\ sizearg = <<>>

\* char dip[16]
IpBufTop == 15
FreshIpBuf == [n \in 0 .. IpBufTop |-> "?"]

\* the bytes of the caller's receive buffer the model follows
RxPeek == 4

\* recve1000 not called yet: the caller's buffer holds what its stack held
InitRxCalls ==
    /\ rxcalls = 0
    /\ rxlen = 0
    /\ rxpkt = [i \in 0 .. RxPeek - 1 |-> 204]
    /\ rxret = <<>>

\* no conversion, no parsereply called yet
InitFrmCalls ==
    /\ fmac = <<>>
    /\ fstr = FreshBuf
    /\ fback = <<>>
    /\ fip = <<>>
    /\ ipstr = FreshIpBuf
    /\ pj = 0
    /\ pch = "?"
    /\ iters = 0
    /\ rframe = <<>>
    /\ rmsg = "none"
    /\ resolved = <<>>

\* the registry before anything is registered; no lookup, no call made yet
InitNet ==
    /\ nics = ZeroNic
    /\ handle = "junk"
    /\ getret = <<>>
    /\ InitArpCalls
    /\ InitFrmCalls
    /\ InitRxCalls

\* --------------------------------------------------------------- arpfrm.c

\* A char is a one-character string, "NUL" the terminator and "?" a byte
\* nobody has written.  A C string argument is the sequence of its chars
\* (the terminator left out); a buffer is a function from index to char.
Digits == <<"0", "1", "2", "3", "4", "5", "6", "7", "8", "9">>
UpperHex == <<"A", "B", "C", "D", "E", "F">>
LowerHex == <<"a", "b", "c", "d", "e", "f">>
IndexOf(c, seq) == CHOOSE k \in DOMAIN seq : seq[k] = c
IsIn(c, seq) == \E k \in DOMAIN seq : seq[k] = c

\* char inttohex(uint n)
inttohex(n) ==
    IF n >= 0 /\ n <= 9 THEN Digits[n + 1]
    ELSE IF n >= 10 /\ n <= 15 THEN UpperHex[n - 10 + 1]
    ELSE "0"

\* int hextoint(char c)
hextoint(c) ==
    IF IsIn(c, Digits) THEN IndexOf(c, Digits) - 1
    ELSE IF IsIn(c, UpperHex) THEN 10 + IndexOf(c, UpperHex) - 1
    ELSE IF IsIn(c, LowerHex) THEN 10 + IndexOf(c, LowerHex) - 1
    ELSE 0

\* a byte order conversion that converts nothing
htonNoSwap(v) == v

\* uint16_t hton(uint16_t v) { return (v >> 8) | (v << 8); }
hton(v) == Or16(v \div 256, (v * 256) % 65536)

\* the char at index i of the C string s: the terminator at its end
CharAt(s, i) == IF i < Len(s) THEN s[i + 1] ELSE "NUL"

\* void packmac(uchar * mac, char * macstr): mac[j] for j = 0 .. 5 comes from
\* macstr[3j] and macstr[3j + 1]
packmac(macstr) ==
    [j \in 0 .. 5 |->
        (hextoint(CharAt(macstr, 3 * j)) * 16
           + hextoint(CharAt(macstr, 3 * j + 1))) % 256]

BROADCASTMAC ==
    <<"F", "F", ":", "F", "F", ":", "F", "F", ":", "F", "F", ":", "F", "F", ":", "F", "F">>

RECURSIVE AtoiFrom(_, _, _)
\* atoi on the buffer arr from index i: decimal digits up to the first char
\* that is none (reading past the buffer counts as the terminator)
AtoiFrom(arr, i, n) ==
    IF i \in DOMAIN arr /\ IsIn(arr[i], Digits)
    THEN AtoiFrom(arr, i + 1, n * 10 + IndexOf(arr[i], Digits) - 1)
    ELSE n
atoi(arr) == AtoiFrom(arr, 0, 0)

\* getip's locals: char arr[4], uint ipvals[4] (entry -1 = never assigned),
\* j, k, and whether a store went outside arr or ipvals
GetipLocals ==
    [arr |-> [n \in 0 .. 3 |-> "?"], ipvals |-> [n \in 0 .. 3 |-> -1],
     j |-> 0, k |-> 0, smash |-> FALSE]

\* arr[j++] = ch
ArrStore(l, ch) ==
    [l EXCEPT !.arr = IF l.j \in 0 .. 3 THEN [@ EXCEPT ![l.j] = ch] ELSE @,
              !.smash = @ \/ l.j \notin 0 .. 3,
              !.j = @ + 1]

\* arr[j++] = '\0'; j = 0; ipvals[k++] = atoi(arr);
OctetStore(l) ==
    LET l1 == ArrStore(l, "NUL")
    IN  [l1 EXCEPT !.ipvals = IF l.k \in 0 .. 3
                              THEN [@ EXCEPT ![l.k] = atoi(l1.arr)] ELSE @,
                   !.smash = @ \/ l.k \notin 0 .. 3,
                   !.j = 0,
                   !.k = @ + 1]

RECURSIVE GetipLoop(_, _, _, _)
\* for (i = 0; i < len; i++) { char c = ip[j]; ... } from i on
GetipLoop(ip, len, i, l) ==
    IF i >= len THEN l
    ELSE LET c == CharAt(ip, l.j)
         IN  GetipLoop(ip, len, i + 1,
                       IF c = "." THEN OctetStore(l) ELSE ArrStore(l, c))

\* uint32_t getip(char * ip, uint len): the value returned when the entries
\* of ipvals never assigned hold u, and whether a store left the arrays
getip(ip, len, u) ==
    LET l == OctetStore(GetipLoop(ip, len, 0, GetipLocals))
        v == [n \in 0 .. 3 |-> IF l.ipvals[n] < 0 THEN u ELSE l.ipvals[n]]
    IN  [val |-> WAdd(WAdd(<<(v[3] * 256) % 65536, 0>>, <<v[2] % 65536, 0>>),
                      WAdd(W(v[1] * 256), W(v[0]))),
         smash |-> l.smash]

\* sizeof(struct eth_head): 42 bytes of fields, 2 bytes of padding before
\* the 4-byte aligned dip, padd, rounded up to a multiple of 4
ETH_HEAD_SIZE == 48

\* a struct eth_head on the stack, never written: every byte b
JunkFrame(b) ==
    [dmac |-> [i \in 0 .. 5 |-> b], smac |-> [i \in 0 .. 5 |-> b],
     ethtype |-> b * 257, hwtype |-> b * 257, prottype |-> b * 257,
     hwsize |-> b, protsize |-> b, opercode |-> b * 257,
     arpsmac |-> [i \in 0 .. 5 |-> b], sip |-> FillWord(b),
     arpdmac |-> [i \in 0 .. 5 |-> b], dip |-> FillWord(b), padd |-> b * 257]

SenderIpText ==
    <<"1", "9", "2", ".", "1", "6", "8", ".", "1", ".", "1">>

\* int initframe(uint8_t * smac, char * ipadd, struct eth_head * eth): the
\* frame it leaves in *eth, and whether getip stored outside its arrays
initframe(smac, ipadd, eth0, u) ==
    LET sip == getip(SenderIpText, Len(SenderIpText), u)
        dip == getip(ipadd, Len(ipadd), u)
    IN  [eth |-> [eth0 EXCEPT !.dmac = packmac(BROADCASTMAC),
                              !.smac = smac,
                              !.ethtype = hton(2054),
                              !.hwtype = hton(1),
                              !.prottype = hton(2048),
                              !.hwsize = 6,
                              !.protsize = 4,
                              !.opercode = hton(1),
                              !.arpsmac = smac,
                              !.arpdmac = packmac(BROADCASTMAC),
                              !.sip = sip.val,
                              !.dip = dip.val],
         smash |-> sip.smash \/ dip.smash]

\* void unpackmac(uint8_t * mac, char * macstr) entered with the index c at
\* c0: the chars it stores, as index -> char
UnpackStores(mac, c0) ==
    [n \in c0 .. c0 + 17 |->
        IF n = c0 + 17 THEN "NUL"
        ELSE IF (n - c0) % 3 = 2 THEN ":"
        ELSE IF (n - c0) % 3 = 0
             THEN inttohex(And16(mac[(n - c0) \div 3], 240) \div 16)
        ELSE inttohex(And16(mac[(n - c0) \div 3], 15))]

\* the buffer macstr after unpackmac: stores at indices the model's buffer
\* does not have are lost
unpackmac(mac, macstr, c0) ==
    LET st == UnpackStores(mac, c0)
    IN  [n \in DOMAIN macstr |-> IF n \in DOMAIN st THEN st[n] ELSE macstr[n]]

\* strcmp(s, buf) == 0 for the C string s and the chars at the start of buf
StrEq(buf, s) ==
    /\ Len(s) \in DOMAIN buf
    /\ \A n \in 0 .. Len(s) - 1 : buf[n] = s[n + 1]
    /\ buf[Len(s)] = "NUL"

\* the 17 chars at the start of a buffer, as a C string argument
BufText(buf) == [n \in 1 .. 17 |-> buf[n - 1]]

RECURSIVE NumDigits(_)
\* the number of turns of  while (ip > 0) { arr[k++] = ...; ip /= 10; }
NumDigits(v) == IF v = 0 THEN 0 ELSE 1 + NumDigits(v \div 10)

RECURSIVE TopDigit(_)
\* arr[k - 1] after that loop: the char of the most significant digit
TopDigit(v) == IF v < 10 THEN Digits[v + 1] ELSE TopDigit(v \div 10)

\* parseip's ipvals after  for (i = 0; i >= 0; i--) { ipvals[i] = ip && v; }
\* when the three entries it never assigns hold u
ParseipVals(ip, u) ==
    [n \in 0 .. 3 |-> IF n = 0 THEN (IF ip # WZero THEN 1 ELSE 0) ELSE u]

\* void parseip(uint ip, char * ipstr) entered with the index c at c0: the
\* octets that are 0 give "0:"; at the first octet that is not 0 the copy loop
\*   for (k = k - 1; j >= 0; j--) ipstr[j++] = arr[k];
\* is entered (spin, with its j and arr[k]) and never left.  smash: arr[3]
\* took more than 3 digits, or the terminator went to ipstr[c - 1] outside
\* the buffer.
parseip(ip, ipstr0, c0, u) ==
    LET vals == ParseipVals(ip, u)
        nz == IF \E n \in 0 .. 3 : vals[n] # 0
              THEN CHOOSE n \in 0 .. 3 :
                     vals[n] # 0 /\ \A m \in 0 .. n - 1 : vals[m] = 0
              ELSE 4
        str == [n \in DOMAIN ipstr0 |->
                  IF n < 2 * nz THEN (IF n % 2 = 0 THEN "0" ELSE ":")
                  ELSE ipstr0[n]]
    IN  IF nz < 4
        THEN [spin |-> TRUE, ipstr |-> str, j |-> 2 * nz,
              ch |-> TopDigit(vals[nz]), smash |-> NumDigits(vals[nz]) > 3]
        ELSE [spin |-> FALSE,
              ipstr |-> [n \in DOMAIN str |->
                           IF n = c0 - 1 THEN "NUL" ELSE str[n]],
              j |-> 2 * nz, ch |-> "?", smash |-> (c0 - 1) \notin DOMAIN str]

\* a header test that lets requests through
HeaderCheckAnyOpcode(f) ==
    IF f.ethtype # 2054 THEN "Not an ARP packet"
    ELSE IF f.prottype # 2048 THEN "Not IPV4 Protocol"
    ELSE "ok"

\* parsereply, lines 39-50: the message of the first test that fails
HeaderCheck(f) ==
    IF f.ethtype # 2054 THEN "Not an ARP packet"
    ELSE IF f.prottype # 2048 THEN "Not IPV4 Protocol"
    ELSE IF f.opercode # 2 THEN "Not an ARP reply"
    ELSE "ok"

SentinelIpText ==
    <<"2", "5", "5", ".", "2", "5", "5", ".", "2", "5", "5", ".", "2", "5", "5">>

\* parsereply's outcome; ran: it called parseip, whose outcome is run
ReplyResult(m, r, c, ran, run, sm) ==
    [msg |-> m, resolved |-> r, c |-> c, ran |-> ran, spin |-> run.spin,
     ipstr |-> run.ipstr, j |-> run.j, ch |-> run.ch, smash |-> sm]
NoParseip ==
    [spin |-> FALSE, ipstr |-> FreshIpBuf, j |-> 0, ch |-> "?",
     smash |-> FALSE]

\* void parsereply(struct eth_head eth) entered with the index c at c0, its
\* dmac buffer holding the chars stale and the unassigned ipvals holding u:
\* what it prints, the MAC text it prints last (<<>>: none), the index c it
\* leaves, and where parseip is when it does not return
parsereply(f, stale, c0, u) ==
    LET chk == HeaderCheck(f)
        dmac == unpackmac(f.arpdmac, stale, c0)
        run == parseip(f.dip, FreshIpBuf, c0 + 18, u)
    IN  IF chk # "ok"
        THEN ReplyResult(chk, <<>>, c0, FALSE, NoParseip, FALSE)
        ELSE IF ~StrEq(dmac, BROADCASTMAC)
        THEN ReplyResult("Not the intended recipient", <<>>, c0 + 18, FALSE,
                         NoParseip, c0 > 0)
        ELSE IF run.spin
        THEN ReplyResult("none", <<>>, c0 + 18, TRUE, run,
                         c0 > 0 \/ run.smash)
        ELSE IF ~StrEq(run.ipstr, SentinelIpText)
        THEN ReplyResult("Not the intended recipient", <<>>, c0 + 18, TRUE,
                         run, c0 > 0 \/ run.smash)
        ELSE ReplyResult("resolved",
                         <<BufText(unpackmac(f.arpsmac, FreshBuf, c0 + 18))>>,
                         c0 + 36, TRUE, run, TRUE)

\* ------------------------------------- the driver, called on its own

\* BAR tables (base, size of regbase[0..5] / regsize[0..5]) of the pcifunc
\* handed to inite1000
BarTable(b0, s0, b1, s1) ==
    [regbase |-> [i \in 0 .. 5 |-> IF i = 0 THEN b0 ELSE IF i = 1 THEN b1
                                    ELSE WZero],
     regsize |-> [i \in 0 .. 5 |-> IF i = 0 THEN s0 ELSE IF i = 1 THEN s1
                                    ELSE WZero]]
BarTables ==
    { \* a 128 KiB memory BAR, then a 64-byte I/O BAR
      BarTable(DevMemBase, W(131072), W(49152), W(64)),
      \* a 128 KiB memory BAR and no I/O BAR
      BarTable(DevMemBase, W(131072), WZero, WZero),
      \* a 64-byte I/O BAR and no memory BAR
      BarTable(W(49152), W(64), WZero, WZero),
      \* an I/O BAR of 32 bytes
      BarTable(DevMemBase, W(131072), W(49152), W(32)),
      \* a memory BAR of 64 KiB
      BarTable(DevMemBase, W(65536), W(49152), W(64)),
      \* no BAR at all
      BarTable(WZero, WZero, WZero, WZero) }

PciFuncs ==
    { [dev |-> 3, func |-> 0, devid |-> <<4110, 32902>>,
       devcls |-> <<512, 3>>, regbase |-> t.regbase, regsize |-> t.regsize,
       irqline |-> 11, irqpin |-> 1] : t \in BarTables }

\* bytes a page may hold when kalloc() returns it (xv6's kfree fills with 1)
FillBytes == {0, 1}
\* bytes the caller's macaddr buffer holds before the call
StackBytes == {204}

InitDriver ==
    /\ fill \in FillBytes
    /\ nalloc = 0
    /\ freed = <<>>
    /\ e = JunkE1000(fill)
    /\ tbdmem = [i \in 0 .. E1000_TBD_SLOTS - 1 |-> JunkTBD(fill)]
    /\ rbdmem = [i \in 0 .. E1000_RBD_SLOTS - 1 |-> JunkRBD(fill)]
    /\ tbufmem = [i \in 0 .. E1000_TBD_SLOTS - 1 |-> <<>>]
    /\ mmio = [r \in E1000Regs |->
                 IF r = E1000_CONTROL_REG THEN DevCtrl0
                 ELSE IF r = E1000_RECV_RAL0 THEN DevRAL0
                 ELSE IF r = E1000_RECV_RAH0 THEN DevRAH0
                 ELSE WZero]
    /\ macout \in {[i \in 0 .. 7 |-> b] : b \in StackBytes}
    \* static ushort irqmask = 0xFFFF & ~(1<<IRQ_SLAVE)
    /\ irqmask = 65531
    /\ ret = <<>>
    /\ pkt = NoPacket
    /\ oldtail = 0
    /\ overrun = 0
    /\ nsent = 0
    /\ polls = 0
    /\ wstep = 0

\* inite1000(pcif, &drv, macaddr) is called once; sende1000(drv, pkt, len)
\* is then called any number of times with the driver it returned
\* the enumeration that found pf at device 3 and called attache1000 for it
InitFound ==
    /\ bus = BusWithNic("e1000", 3)
    /\ cfg = CfgReset(bus)
    /\ cfgaddr = pciconfigformaddr(RootBusNum, 3, 0, 36)
    /\ portlog = <<>>
    /\ fdev = 3
    /\ ffunc = 0
    /\ bhlc = WZero
    /\ totdev = 3
    /\ enumret = <<>>
    /\ visited = {<<0, 0>>, <<1, 0>>, <<1, 1>>, <<3, 0>>}
    /\ attached = << <<3, 0>> >>
    /\ bar = PCI_MAPREG_END

Init ==
    /\ InitNet
    /\ pc = "inite1000"
    /\ panicmsg = "none"
    /\ pf \in PciFuncs
    /\ InitDriver
    /\ InitFound

vars == <<pc, panicmsg, pf, drvvars, pcivars, netvars>>

DriverStep ==
    \/ E1000BarSelect
    \/ E1000Reset
    \/ E1000ResetPoll
    \/ E1000Link
    \/ E1000TxRing
    \/ E1000RxRing
    \/ E1000Buffers
    \/ E1000Program
    \/ E1000Unmask
    \/ SendFill
    \/ SendTail
    \/ SendPoll

HwStep ==
    \/ HwResetDone
    \/ HwTxDone
    \/ HwTxOutside

Next == DriverStep \/ HwStep

Spec == Init /\ [][Next]_vars


\* the driver's own steps run whenever they can; the controller and the
\* caller are under no obligation
DriverRun ==
    \/ E1000BarSelect
    \/ E1000Reset
    \/ E1000ResetPoll
    \/ E1000Link
    \/ E1000TxRing
    \/ E1000RxRing
    \/ E1000Buffers
    \/ E1000Program
    \/ E1000Unmask
    \/ SendTail
    \/ SendPoll

SpecLive == Init /\ [][Next]_vars /\ WF_vars(DriverRun)

\* ------------------------------------------------- pciinit, called at boot

\* what CONFIG_ADDRESS holds when pciinit is called: nothing (reset), or the
\* address of the last register the firmware touched
BootLatches ==
    { WZero,
      pciconfigformaddr(0, 0, 0, PCI_CLASS_REG),
      pciconfigformaddr(0, 1, 0, PCI_BHLC_REG),
      pciconfigformaddr(0, 3, 0, PCI_CLASS_REG),
      pciconfigformaddr(0, 3, 0, PCI_MAPREG_START),
      pciconfigformaddr(0, 3, 0, PCI_INTERRUPT_REG) }

BootBuses == {BusWithNic("e1000", 3), BusEmpty}

InitPci ==
    /\ InitNet
    /\ pc = "enumdev"
    /\ panicmsg = "none"
    /\ pf = NullFunc
    /\ InitDriver
    /\ bus \in BootBuses
    /\ cfg = CfgReset(bus)
    /\ cfgaddr \in BootLatches
    /\ portlog = <<>>
    /\ fdev = 0
    /\ ffunc = 0
    /\ bhlc = WZero
    /\ totdev = 0
    /\ enumret = <<>>
    /\ visited = {}
    /\ attached = <<>>
    /\ bar = PCI_MAPREG_START

NextPci ==
    \/ EnumDev
    \/ EnumFunc
    \/ AttachPciNic
    \/ EnumReturn

SpecPci == InitPci /\ [][NextPci]_vars

\* ----------------------- attachpcinic, called for a function that matches

\* the pcifunc pcienumbus builds for the function at <<d, 0>> of bus b
FoundFunc(b, d) ==
    [dev |-> d, func |-> 0,
     devid |-> Kind[b[<<d, 0>>]][PCI_ID_REG].val,
     devcls |-> Kind[b[<<d, 0>>]][PCI_CLASS_REG].val,
     regbase |-> NoRegs, regsize |-> NoRegs,
     irqline |-> PCI_INTERRUPT_LINE(Kind[b[<<d, 0>>]][PCI_INTERRUPT_REG].val),
     irqpin |-> PCI_INTERRUPT_PIN(Kind[b[<<d, 0>>]][PCI_INTERRUPT_REG].val)]

NicSlots == {3, 31}

InitAttach ==
    /\ InitNet
    /\ pc = "attachpcinic"
    /\ panicmsg = "none"
    /\ InitDriver
    /\ fdev \in NicSlots
    /\ bus \in {BusWithNic(k, fdev) : k \in NicKinds}
    /\ pf = FoundFunc(bus, fdev)
    /\ visited = {<<0, 0>>, <<1, 0>>, <<1, 1>>, <<fdev, 0>>}
    /\ cfg = CfgReset(bus)
    /\ cfgaddr = pciconfigformaddr(RootBusNum, fdev, 0, PCI_CLASS_REG)
    /\ portlog = <<>>
    /\ ffunc = 0
    /\ bhlc = WZero
    /\ totdev = 3
    /\ enumret = <<>>
    /\ attached = <<>>
    /\ bar = PCI_MAPREG_START

NextAttach ==
    \/ AttachPciNic
    \/ PciEnableCmd
    \/ PciEnableBar
    \/ E1000BarSelect

SpecAttach == InitAttach /\ [][NextAttach]_vars

\* ------------------------------------ the registry and the ARP system call

\* the station MAC of the controller, 52:54:00:12:34:56, and another one
Macs == { [i \in 0 .. 5 |-> <<82, 84, 0, 18, 52, 86>>[i + 1]],
          [i \in 0 .. 5 |-> <<0, 171, 205, 239, 1, 255>>[i + 1]] }

\* what a caller may hand to regnicdevice: any instance, any MAC, either
\* operation set or not
NicValues ==
    [drvr : {"null", "e1000"}, macaddr : Macs,
     sendpacket : {"null", "sende1000"}, recvpacket : {"null", "recve1000"}]

Interfaces == {"mynet0", "eth1"}

RegNicDevice ==
    /\ pc = "arp"
    /\ \E d \in NicValues : nics' = regnicdevice(d)
    /\ UNCHANGED <<pc, panicmsg, pf, drvvars, pcivars, handle, getret,
                   arpvars, frmvars, rxvars>>

GetNicDevice ==
    /\ pc = "arp"
    /\ \E intrfc \in Interfaces :
         LET r == getnicdevice(nics, intrfc, handle)
         IN  /\ getret' = <<r.ret>>
             /\ handle' = r.d
    /\ UNCHANGED <<pc, panicmsg, pf, drvvars, pcivars, nics, arpvars,
                   frmvars, rxvars>>

\* values a local that was never assigned may hold
UninitVals == {0, 52428}
RespBytes == {0, 204}
\* unpackmac calls made with the index not reset
MaxUnpack == 2

\* a sys_arp that reports success whatever sendrequest returned
SysArpReturnZero(r) == 0

\* sys_arp, lines 15-19
SysArpReturn(r) == IF r < 0 THEN -1 ELSE 0

\* the call returns r from sendrequest (<<>>: not called) and s from sys_arp
\* having built no frame and sent nothing
ArpFails(r, s) ==
    /\ reqret' = r
    /\ sysret' = s
    /\ eth' = <<>>
    /\ txlog' = <<>>
    /\ arpresp' = FreshBuf
    /\ UNCHANGED <<pc, cidx>>

\* the size argument of the arp call: argptr(2, &arpresp, size) accepts any
\* size whose bytes lie in the process; arptest.c passes 18
OutSizes == {6, 18}

\* a call that hands the send operation the handle instead of its driver
SendPacketCallHandle(n, frame) ==
    [fn |-> n.sendpacket, drvr |-> "nic", frame |-> frame,
     len |-> ETH_HEAD_SIZE - 2]

\* sendrequest, line 32:
\* _nic->sendpacket(_nic->drvr, (uint8_t *) &eth, sizeof(eth) - 2)
SendPacketCall(n, frame) ==
    [fn |-> n.sendpacket, drvr |-> n.drvr, frame |-> frame,
     len |-> ETH_HEAD_SIZE - 2]

\* sys_arp(intrfc, ipadd, arpresp, size) and the sendrequest it calls
SysArp ==
    /\ pc = "arp"
    /\ cidx < 18 * MaxUnpack
    /\ \E ip \in IpArgs, argsok \in BOOLEAN :
         /\ iparg' = ip
         /\ IF ~argsok THEN ArpFails(<<>>, <<-1>>)
            ELSE \E found \in {getnicdevice(nics, intrfc, "junk").ret :
                                 intrfc \in Interfaces} :
                   IF found < 0
                   THEN ArpFails(<<-1>>, <<SysArpReturn(-1)>>)
                   ELSE \E u \in UninitVals, b \in RespBytes :
                          LET built == initframe(nics.macaddr, ip.text,
                                                 JunkFrame(b), u)
                              resp == JunkFrame(b)
                          IN  \E fault \in (IF built.smash THEN BOOLEAN
                                            ELSE {FALSE}) :
                                IF fault
                                THEN \* the stores outside getip's arrays
                                     \* took the kernel down
                                     /\ pc' = "fault"
                                     /\ reqret' = <<>>
                                     /\ sysret' = <<>>
                                     /\ eth' = <<>>
                                     /\ txlog' = <<>>
                                     /\ arpresp' = FreshBuf
                                     /\ cidx' = cidx
                                ELSE /\ eth' = <<built.eth>>
                                     /\ txlog' =
                                          <<SendPacketCall(nics, built.eth)>>
                                     \* blockuntilreply(&resp) returns 0,
                                     \* resp never written
                                     /\ arpresp' =
                                          [unpackmac(resp.arpdmac, FreshBuf,
                                                     cidx)
                                             EXCEPT ![17] = "NUL"]
                                     /\ cidx' = cidx + 18
                                     /\ reqret' = <<0>>
                                     /\ sysret' = <<SysArpReturn(0)>>
                                     /\ pc' = pc
    \* size goes to argptr's range test only; sendrequest is not given it
    /\ \E size \in OutSizes : sizearg' = <<size>>
    /\ UNCHANGED <<panicmsg, pf, drvvars, pcivars, nicvars, rxq, frmvars,
                   rxvars>>

\* frames as the code reads them: a 16-bit field is the uint16_t the struct
\* member holds
ArpFrame(et, pt, op, dm, di, sm) ==
    [dmac |-> sm, smac |-> sm, ethtype |-> et, hwtype |-> 1, prottype |-> pt,
     hwsize |-> 6, protsize |-> 4, opercode |-> op, arpsmac |-> sm,
     sip |-> <<257, 43200>>, arpdmac |-> dm, dip |-> di, padd |-> 0]
PeerMac == [i \in 0 .. 5 |-> <<2, 0, 94, 16, 32, 48>>[i + 1]]
BroadcastBytes == [i \in 0 .. 5 |-> 255]

\* a reply as parsereply wants it, and a request
NetFrames ==
    { ArpFrame(2054, 2048, 2, BroadcastBytes, WOnes, PeerMac),
      ArpFrame(2054, 2048, 1, BroadcastBytes, WOnes, PeerMac) }
MaxRx == 1

\* the network delivers a frame; nothing in the code takes it from the NIC
NetDeliver ==
    /\ pc \in {"arp", "idle"}
    /\ Len(rxq) < MaxRx
    /\ \E f \in NetFrames : rxq' = Append(rxq, f)
    /\ UNCHANGED <<pc, panicmsg, pf, drvvars, pcivars, nicvars, iparg, reqret,
                   sysret, eth, txlog, arpresp, cidx, sizearg, frmvars,
                   rxvars>>

InitArp ==
    /\ InitNet
    /\ pc = "arp"
    /\ panicmsg = "none"
    /\ pf = NullFunc
    /\ InitDriver
    /\ InitFound

NextArp ==
    \/ RegNicDevice
    \/ GetNicDevice

SpecArp == InitArp /\ [][NextArp]_vars

\* the arp system call on its own: the registry as boot left it, empty or
\* holding the e1000 instance with both, one or none of its operations
FullNic(m) ==
    [drvr |-> "e1000", macaddr |-> m, sendpacket |-> "sende1000",
     recvpacket |-> "recve1000"]
BootNics ==
    {ZeroNic} \cup {FullNic(m) : m \in Macs}
      \cup {[FullNic(m) EXCEPT !.recvpacket = "null"] : m \in Macs}
      \cup {[FullNic(m) EXCEPT !.sendpacket = "null"] : m \in Macs}

\* where unpackmac's index stands after boot: inite1000 has made one call of
\* it for the controller it brought up (E1000Link)
BootIndex(n) == IF n.drvr = "e1000" THEN 18 ELSE 0

InitSys ==
    /\ nics \in BootNics
    /\ handle = "junk"
    /\ getret = <<>>
    /\ iparg = IpArg(<<>>, <<>>)
    /\ reqret = <<>>
    /\ sysret = <<>>
    /\ eth = <<>>
    /\ txlog = <<>>
    /\ arpresp = FreshBuf
    /\ cidx = BootIndex(nics)
    /\ rxq = <<>>
    /\ sizearg = <<>>
    /\ InitFrmCalls
    /\ InitRxCalls
    /\ pc = "arp"
    /\ panicmsg = "none"
    /\ pf = NullFunc
    /\ InitDriver
    /\ InitFound

NextSys ==
    \/ SysArp
    \/ NetDeliver

SpecSys == InitSys /\ [][NextSys]_vars

\* ------------------------------------- the receive operation on its own
MaxRecvs == 4
RecvLens == {42, 60, PACKBUF_SIZE}

\* void recve1000(void * drv, uint8_t * pkt, uint16_t len): the body is empty
Recve1000 ==
    /\ pc = "idle"
    /\ rxcalls < MaxRecvs
    /\ \E len \in RecvLens : rxlen' = len
    /\ rxcalls' = rxcalls + 1
    /\ UNCHANGED <<rxpkt, rxret>>
    /\ UNCHANGED <<pc, panicmsg, pf, drvvars, pcivars, nicvars, arpvars,
                   frmvars>>

NextRecv ==
    \/ E1000BarSelect
    \/ E1000Reset
    \/ E1000ResetPoll
    \/ HwResetDone
    \/ E1000Link
    \/ E1000TxRing
    \/ E1000RxRing
    \/ E1000Buffers
    \/ E1000Program
    \/ E1000Unmask
    \/ NetDeliver
    \/ Recve1000

SpecRecv == Init /\ [][NextRecv]_vars

\* what the local nic d of attache1000 holds in drvr when inite1000 returned
\* before *drv = _e1000: whatever the stack held
StackPointers == {"null", "junk"}

\* attache1000, lines 86-90: inite1000 has returned (its value is not
\* looked at); set the two operations and register the handle
AttachE1000Register ==
    /\ pc \in {"idle", "initfail"}
    /\ \E s \in StackPointers :
         nics' = regnicdevice(
                   [drvr |-> IF ret = <<0>> THEN "e1000" ELSE s,
                    macaddr |-> [i \in 0 .. 5 |-> macout[i]],
                    sendpacket |-> "sende1000",
                    recvpacket |-> "recve1000"])
    /\ pc' = "arp"
    /\ UNCHANGED <<panicmsg, pf, drvvars, pcivars, handle, getret, arpvars,
                   frmvars, rxvars>>

\* boot to system call: inite1000 as attache1000 calls it, the registration,
\* then lookups and arp calls
NextBoot ==
    \/ E1000BarSelect
    \/ E1000Reset
    \/ E1000ResetPoll
    \/ HwResetDone
    \/ E1000Link
    \/ E1000TxRing
    \/ E1000RxRing
    \/ E1000Buffers
    \/ E1000Program
    \/ E1000Unmask
    \/ AttachE1000Register
    \/ GetNicDevice
    \/ SysArp

SpecBoot == Init /\ [][NextBoot]_vars

\* the conversions and parsereply, called on their own
MacBytes == {PeerMac, BroadcastBytes}
IpWords == {WZero, WOnes, <<258, 43200>>}

\* the reply parsereply's tests are written for, and frames that differ from
\* it in one field: the 16-bit fields in wire order, a request, an IP
\* ethertype, an ARP protocol type, another target MAC, another target IP
WantedReply == ArpFrame(2054, 2048, 2, BroadcastBytes, WOnes, PeerMac)
ReplyFrames ==
    { WantedReply,
      ArpFrame(hton(2054), hton(2048), hton(2), BroadcastBytes, WOnes,
               PeerMac),
      [WantedReply EXCEPT !.opercode = 1],
      [WantedReply EXCEPT !.ethtype = 2048],
      [WantedReply EXCEPT !.prottype = 2054],
      [WantedReply EXCEPT !.arpdmac = PeerMac],
      [WantedReply EXCEPT !.dip = WZero] }

\* what a char dmac[18] on the stack may hold before it is written: junk, or
\* the text an earlier call left there
StaleBufs == {FreshBuf, unpackmac(BroadcastBytes, FreshBuf, 0)}

FrmUnchanged == UNCHANGED <<panicmsg, pf, drvvars, pcivars, nicvars, iparg,
                            sizearg,
                            reqret, sysret, eth, txlog, arpresp, rxq, rxvars>>

\* unpackmac(mac, macstr) with a fresh 18-byte macstr
UnpackMac ==
    /\ pc = "frm"
    /\ cidx < 18 * MaxUnpack
    /\ \E mac \in MacBytes :
         /\ fmac' = <<mac>>
         /\ fstr' = unpackmac(mac, FreshBuf, cidx)
    /\ cidx' = cidx + 18
    /\ fback' = <<>>
    /\ UNCHANGED <<pc, fip, ipstr, pj, pch, iters, rframe, rmsg, resolved>>
    /\ FrmUnchanged

\* packmac(mac, macstr) on the buffer the last unpackmac call was given
PackMac ==
    /\ pc = "frm"
    /\ fmac # <<>>
    /\ fback' = <<packmac(BufText(fstr))>>
    /\ UNCHANGED <<pc, cidx, fmac, fstr, fip, ipstr, pj, pch, iters, rframe,
                   rmsg, resolved>>
    /\ FrmUnchanged

\* parseip(ip, ipstr) with a fresh 16-byte ipstr
ParseIp ==
    /\ pc = "frm"
    /\ \E ip \in IpWords, u \in UninitVals :
         LET run == parseip(ip, FreshIpBuf, cidx, u)
         IN  \E fault \in (IF run.smash THEN BOOLEAN ELSE {FALSE}) :
               /\ fip' = <<ip>>
               /\ ipstr' = run.ipstr
               /\ pj' = run.j
               /\ pch' = run.ch
               /\ pc' = IF fault THEN "fault"
                        ELSE IF run.spin THEN "parseip" ELSE pc
    /\ UNCHANGED <<cidx, fmac, fstr, fback, iters, rframe, rmsg, resolved>>
    /\ FrmUnchanged

\* one turn of  for (k = k - 1; j >= 0; j--) ipstr[j++] = arr[k];
ParseIpCopy ==
    /\ pc = "parseip"
    /\ ipstr' = [ipstr EXCEPT ![pj] = pch]
    /\ iters' = (iters + 1) % PollMod
    /\ UNCHANGED <<pc, cidx, fmac, fstr, fback, fip, pj, pch, rframe, rmsg,
                   resolved>>
    /\ FrmUnchanged

\* parsereply(eth)
ParseReply ==
    /\ pc = "frm"
    /\ cidx < 18 * MaxUnpack
    /\ \E f \in ReplyFrames, u \in UninitVals, stale \in StaleBufs :
         LET r == parsereply(f, stale, cidx, u)
         IN  \E fault \in (IF r.smash THEN BOOLEAN ELSE {FALSE}) :
               /\ rframe' = <<f>>
               /\ rmsg' = IF fault THEN "none" ELSE r.msg
               /\ resolved' = IF fault THEN <<>> ELSE r.resolved
               /\ cidx' = r.c
               /\ ipstr' = IF r.ran THEN r.ipstr ELSE ipstr
               /\ pj' = IF r.ran THEN r.j ELSE pj
               /\ pch' = IF r.ran THEN r.ch ELSE pch
               /\ pc' = IF fault THEN "fault"
                        ELSE IF r.spin THEN "parseip" ELSE pc
    /\ UNCHANGED <<fmac, fstr, fback, fip, iters>>
    /\ FrmUnchanged

InitFrm ==
    /\ InitNet
    /\ pc = "frm"
    /\ panicmsg = "none"
    /\ pf = NullFunc
    /\ InitDriver
    /\ InitFound

NextFrm ==
    \/ UnpackMac
    \/ PackMac
    \/ ParseIp
    \/ ParseIpCopy
    \/ ParseReply

SpecFrm == InitFrm /\ [][NextFrm]_vars

\* a call that is in parseip's copy loop keeps running it; nobody is obliged
\* to make another call
SpecFrmLive == SpecFrm /\ WF_vars(ParseIpCopy)

\* ------------------------------------------------------------ properties

\* sende1000 has returned: pkt and oldtail are those of the call
SendReturned == pc = "idle" /\ nsent > 0

\* C1: when sende1000 returns from a call made with the tail at slot s and a
\* packet of at most 2046 bytes, descriptor s has its DONE bit set, its
\* length is the submitted length and packbuf s starts with the submitted
\* bytes.
C1_TransmitRoundTrip ==
    (SendReturned /\ pkt.len <= PACKBUF_SIZE) =>
        /\ E1000_TDESC_STATUS_DONE(tbdmem[oldtail].sts)
        /\ tbdmem[oldtail].len = pkt.len
        /\ \A j \in 0 .. pkt.len - 1 :
               BufByte(tbufmem[oldtail], j, fill) = PktByte(pkt.tag, j)

\* a full packbuf sent from the last slot of the ring has returned
C1_Witness ==
    /\ SendReturned
    /\ oldtail = E1000_TBD_SLOTS - 1
    /\ pkt.len = PACKBUF_SIZE

\* C2: after N sende1000 calls that returned, the software tail is N mod 128,
\* lies in 0 .. 127 and is the value the Transmit-Descriptor-Tail register
\* holds.
C2_TailCountsSends ==
    (pc = "idle") =>
        /\ e.tbdtail = nsent % E1000_TBD_SLOTS
        /\ e.tbdtail \in 0 .. E1000_TBD_SLOTS - 1
        /\ mmio[E1000_TDT] = W(e.tbdtail)

\* the 129th call has returned: the tail has wrapped and stands at 1
C2_Witness ==
    /\ pc = "idle"
    /\ nsent = E1000_TBD_SLOTS + 1
    /\ e.tbdtail = 1

InWait == pc \in {"reset_poll", "send_poll"}

\* C3: every hardware wait is bounded: a driver polling for the reset bit to
\* clear, or for DONE to be set, leaves the poll loop whatever the
\* controller does.
C3_WaitsEnd == [](InWait => <>(~InWait))

\* C4: a sende1000 call with more than 2046 bytes is rejected before any
\* copy: packet buffers, descriptors, the software tail and the Tail register
\* are as they were before the call.
C4_LongPacketRejected ==
    [][(pc = "idle" /\ pc' # "idle" /\ pkt'.len > PACKBUF_SIZE) =>
          /\ tbufmem' = tbufmem
          /\ tbdmem' = tbdmem
          /\ e'.tbdtail = e.tbdtail
          /\ mmio'[E1000_TDT] = mmio[E1000_TDT]]_vars

RingRegs ==
    { E1000_TDBAL, E1000_TDBAH, E1000_TDLEN, E1000_TDH, E1000_TDT,
      E1000_RDBAL, E1000_RDBAH, E1000_RDLEN, E1000_RDH, E1000_RDT }

\* C5: when a descriptor ring comes back from the allocator at an address
\* not divisible by 16, inite1000 returns -1, what it frees is the region the
\* allocator returned for that ring (same start address), and no ring
\* register has been written.
C5_MisalignedRingFreed ==
    (pc = "initfail") =>
        /\ ret = <<-1>>
        /\ freed = << IF Misaligned(e.tbd[0]) THEN e.tbd[0] ELSE e.rbd[0] >>
        /\ \A r \in RingRegs : mmio[r] = WZero

MemOnlyTable == BarTable(DevMemBase, W(131072), WZero, WZero)

\* C6: BAR selection is fatal only when neither base is found: a function
\* with a valid 128 KiB memory BAR and no I/O BAR gets past BAR selection
\* with membase set, and every driver that goes on to reset has
\* iobase != 0 or membase != 0.
C6_MemOnlyFunctionAccepted ==
    /\ (pf.regbase = MemOnlyTable.regbase /\ pf.regsize = MemOnlyTable.regsize
        /\ pc # "inite1000")
         => (pc # "panic" /\ e.membase = DevMemBase)
    /\ (pc \notin {"inite1000", "panic"})
         => (e.iobase # WZero \/ e.membase # WZero)

\* C7: a failed attach attempt is never fatal to enumeration: while
\* pcienumbus has device numbers left to examine and has not returned, no
\* attach attempt (wrong I/O BAR size, wrong memory BAR size) has halted
\* the kernel.
C7_AttachFailureNotFatal ==
    (enumret = <<>> /\ fdev < MAX_DEV_PER_PCI_BUS) => pc # "panic"

\* what a bus holds, from its functions' registers out of reset
HeaderOf(key) ==
    IF key \in DOMAIN bus THEN Kind[bus[key]][PCI_BHLC_REG].val ELSE WOnes
BusDevices ==
    { d \in 0 .. MAX_DEV_PER_PCI_BUS - 1 :
        PCI_HDRTYPE_TYPE(HeaderOf(<<d, 0>>)) <= 1 }
BusFunctions ==
    { <<d, f>> \in BusDevices \X (0 .. 7) :
        f = 0 \/ PCI_HDRTYPE_MULTIFN(HeaderOf(<<d, 0>>)) }
BusNics ==
    { key \in BusFunctions \cap DOMAIN bus :
        /\ PCI_CLASS(Kind[bus[key]][PCI_CLASS_REG].val)
             = PCI_DEVICE_CLASS_NETWORK_CONTROLLER
        /\ PCI_VENDOR(Kind[bus[key]][PCI_ID_REG].val) = 32902
        /\ PCI_PRODUCT(Kind[bus[key]][PCI_ID_REG].val) = 4110 }

\* C8: when pcienumbus returns, its result is the number of device numbers
\* whose header type is <= 1, the functions it examined are function 0 of
\* those devices and functions 1..7 of the multi-function ones, and the
\* attach callback was invoked exactly once for each function of class
\* network controller with ID 0x8086:0x100e, and for no other.
C8_EnumerationCounts ==
    (pc = "enumdone") =>
        /\ enumret = <<Cardinality(BusDevices)>>
        /\ visited = BusFunctions
        /\ { attached[i] : i \in DOMAIN attached } = BusNics
        /\ Len(attached) = Cardinality(BusNics)

\* C9: every pciconfread writes the formed address to port 0xCF8 and then
\* reads port 0xCFC, never writes port 0xCFC, returns the register at the
\* requested address and leaves configuration space as it was.
C9_ConfigReadProtocol ==
    \A i \in DOMAIN portlog :
        (portlog[i].call = "pciconfread") =>
            /\ portlog[i].ops[1]
                 = <<"outl", PCI_CONF_ADDR_IOPORT, portlog[i].addr>>
            /\ portlog[i].ops[2][1] = "inl"
            /\ portlog[i].ops[2][2] = PCI_CONF_DATA_IOPORT
            /\ portlog[i].ret = portlog[i].reg
            /\ portlog[i].same

\* what the function of pf answers when all-ones is written to BAR n
ProbeValue(n) ==
    LET r == Kind[bus[<<pf.dev, pf.func>>]][PCI_MAPREG_START + 4 * n]
    IN  WOr(WAnd(r.val, WNot(r.mask)), r.mask)
BarType(n) == KindBars[bus[<<pf.dev, pf.func>>]][n + 1].type
BarMask(n) == IF BarType(n) = "io" THEN <<65535, 65532>> ELSE <<65535, 65520>>

\* C10: when pcienabledev returns, every implemented BAR n has
\* regsize[n] = ~(probe & mask) + 1 mod 2^32 and regbase[n] = the masked
\* value the BAR held before the call (mask clears 4 bits of a memory BAR, 2
\* of an I/O BAR); a 16-byte memory BAR at 0x1000 is recorded as (0x1000, 16).
C10_BarDecode ==
    (pc = "inite1000") =>
        \A n \in 0 .. 2 :
            (BarType(n) \in {"mem", "mem64", "io"}) =>
                /\ pf.regsize[n] = WNeg(WAnd(ProbeValue(n), BarMask(n)))
                /\ pf.regbase[n]
                     = WAnd(Kind[bus[<<pf.dev, pf.func>>]]
                                [PCI_MAPREG_START + 4 * n].val, BarMask(n))

\* C11: getnicdevice returns -1 exactly when the registry slot has its send
\* or its receive pointer unset, whatever name is passed (so also before any
\* regnicdevice call); on -1 the caller's handle is as it was, on 0 it points
\* at the slot; the registry is never modified.
C11_LookupNeedsBothOperations ==
    [][GetNicDevice =>
         /\ getret' \in {<<-1>>, <<0>>}
         /\ (getret' = <<-1>>)
              <=> (nics.sendpacket = "null" \/ nics.recvpacket = "null")
         /\ (getret' = <<-1>>) => (handle' = handle)
         /\ (getret' = <<0>>) => (handle' = "&nics[0]")
         /\ nics' = nics]_vars

\* a lookup has failed on a slot that has a send but no receive operation,
\* with the handle of an earlier successful lookup still in place
C11_Witness ==
    /\ getret = <<-1>>
    /\ nics.sendpacket = "sende1000"
    /\ nics.recvpacket = "null"
    /\ handle = "&nics[0]"


\* C12: the frame initframe builds has destination MAC FF:FF:FF:FF:FF:FF,
\* source MAC and ARP sender MAC equal to the caller's MAC, address lengths
\* 6 and 4, and ethertype 0x0806, hardware type 1, protocol type 0x0800 and
\* opcode 1 stored byte-swapped (0x0608, 0x0100, 0x0008, 0x0100), whatever
\* the sender MAC and the target IP text.  (The registry slot does not change
\* while arp calls are made, so the caller's MAC is nics.macaddr.)
C12_RequestFrameFields ==
    eth # <<>> =>
        LET f == eth[1]
        IN  /\ f.dmac = BroadcastBytes
            /\ f.smac = nics.macaddr
            /\ f.arpsmac = nics.macaddr
            /\ f.hwsize = 6
            /\ f.protsize = 4
            /\ f.ethtype = 1544
            /\ f.hwtype = 256
            /\ f.prottype = 8
            /\ f.opercode = 256

\* a frame was built for "192.168.2.1" from the registered MAC
C12_Witness ==
    /\ eth # <<>>
    /\ iparg.octets = <<192, 168, 2, 1>>
    /\ eth[1].smac = nics.macaddr
    /\ eth[1].smac \in Macs
    /\ Len(txlog) = 1

\* C13: the target IP field of the frame built for the text "a.b.c.d" holds
\* a + (b << 8) + (c << 16) + (d << 24), the bytes a, b, c, d in that order.
C13_TargetIpBytes ==
    eth # <<>> =>
        LET o == iparg.octets
        IN  eth[1].dip = <<o[4] * 256 + o[3], o[2] * 256 + o[1]>>

\* the reply's fields in the byte order parsereply compares them in, or in
\* the order they have on the wire
IsValidReply(f) ==
    \/ f.ethtype = 2054 /\ f.prottype = 2048 /\ f.opercode = 2
    \/ f.ethtype = 1544 /\ f.prottype = 8 /\ f.opercode = 512

\* C18: sendrequest returns 0 only once a reply that passes validation has
\* been received, and the caller's buffer then holds that reply's ARP sender
\* MAC as 17 characters of colon-hex and a terminator.
C18_SuccessNeedsReply ==
    reqret = <<0>> =>
        \E k \in DOMAIN rxq :
            /\ IsValidReply(rxq[k])
            /\ \A n \in 0 .. 17 :
                 arpresp[n] = UnpackStores(rxq[k].arpsmac, 0)[n]

\* C19: when the registry lookup fails (nothing registered, or the send or
\* the receive pointer unset) sendrequest returns -1 and sys_arp returns -1;
\* no frame is built, nothing is handed to a send operation and the caller's
\* buffer is not written, however many calls are made.
C19_LookupFailureReturned ==
    (nics.sendpacket = "null" \/ nics.recvpacket = "null") =>
        /\ sysret \in {<<>>, <<-1>>}
        /\ reqret \in {<<>>, <<-1>>}
        /\ eth = <<>>
        /\ txlog = <<>>
        /\ arpresp = FreshBuf
        /\ cidx = BootIndex(nics)

\* sendrequest was called with the receive pointer unset and failed
C19_Witness ==
    /\ reqret = <<-1>>
    /\ sysret = <<-1>>
    /\ nics.sendpacket = "sende1000"
    /\ nics.recvpacket = "null"
    /\ txlog = <<>>
    /\ iparg.text # <<>>


\* C14: unpackmac writes 17 characters XX:XX:XX:XX:XX:XX (uppercase hex pairs
\* separated by colons) at the start of the buffer and a terminator at index
\* 17, nothing behind it, and packmac of that text gives the 6 bytes back.
C14_MacRoundTrip ==
    /\ fmac # <<>> =>
         /\ \A n \in 0 .. 16 :
              IF n % 3 = 2 THEN fstr[n] = ":"
              ELSE IsIn(fstr[n], Digits) \/ IsIn(fstr[n], UpperHex)
         /\ fstr[17] = "NUL"
         /\ \A n \in 18 .. MacBufTop : fstr[n] = "?"
    /\ fback # <<>> => fback = fmac

RECURSIVE DecText(_)
\* the decimal digits of v
DecText(v) ==
    IF v < 10 THEN <<Digits[v + 1]>>
    ELSE Append(DecText(v \div 10), Digits[(v % 10) + 1])

\* "a.b.c.d" for the value a + (b << 8) + (c << 16) + (d << 24)
DottedText(ip) ==
    DecText(Lo(ip) % 256) \o <<".">> \o DecText(Lo(ip) \div 256) \o <<".">>
      \o DecText(Hi(ip) % 256) \o <<".">> \o DecText(Hi(ip) \div 256)

\* C15: parseip terminates, what it leaves in the buffer is the dotted
\* decimal text of the value it was given, and getip of that text is the
\* value again.  Stated for the values other than 0, all of which take the
\* same path through parseip.
C15_IpRoundTrip ==
    []((fip # <<>> /\ fip # <<WZero>>) =>
         <>(/\ pc = "frm"
            /\ fip # <<>>
            /\ StrEq(ipstr, DottedText(fip[1]))
            /\ getip(DottedText(fip[1]), Len(DottedText(fip[1])), 0).val
                 = fip[1]))

\* C16: a frame whose ethertype is not 0x0806, or whose protocol type is not
\* 0x0800, or whose opcode is not 2 makes parsereply return at that test: it
\* prints the test's message, converts nothing and prints no MAC, whatever
\* the other fields hold; a request (opcode 1) with every other field as
\* wanted is rejected with "Not an ARP reply".
C16_BadHeaderRejected ==
    [][(rframe' # rframe
           /\ (\/ rframe'[1].ethtype # 2054
               \/ rframe'[1].prottype # 2048
               \/ rframe'[1].opercode # 2)) =>
         /\ resolved' = <<>>
         /\ rmsg' = (IF rframe'[1].ethtype # 2054 THEN "Not an ARP packet"
                     ELSE IF rframe'[1].prottype # 2048
                     THEN "Not IPV4 Protocol"
                     ELSE "Not an ARP reply")
         /\ cidx' = cidx
         /\ ipstr' = ipstr
         /\ pc' = pc]_vars

\* parsereply has returned from a request that had every other field as
\* wanted
C16_Witness ==
    /\ rframe = <<[WantedReply EXCEPT !.opercode = 1]>>
    /\ rmsg = "Not an ARP reply"
    /\ resolved = <<>>
    /\ pc = "frm"

\* C17: a frame with ethertype 0x0806, protocol type 0x0800, opcode 2,
\* target MAC FF:FF:FF:FF:FF:FF and target IP 255.255.255.255 is accepted:
\* parsereply prints the text of the frame's ARP sender MAC.  Stated for the
\* first conversion made (unpackmac's index started at 0).
C17_WantedReplyResolved ==
    []((rframe = <<WantedReply>> /\ cidx = 18) =>
         <>(/\ rframe # <<>>
            /\ resolved = <<BufText(UnpackStores(rframe[1].arpsmac, 0))>>))

\* the RX descriptor at the software head has its descriptor-done bit set
RxReady == BitAndN(rbdmem[e.rbdhead].sts, 1, 8) # 0

\* C20: a recve1000 call made when the RX descriptor at head is complete
\* copies the slot's buffer (kalloc'ed memory, every byte the allocator's
\* fill) into the caller's buffer, clears the slot's status, advances the
\* head modulo 128 and writes the receive tail register; a call made when it
\* is not complete returns a would-block indication and leaves the ring alone.
C20_ReceiveDelivers ==
    [][rxcalls' # rxcalls =>
         IF RxReady
         THEN /\ rxpkt' = [i \in 0 .. RxPeek - 1 |-> fill]
              /\ ~RxReady'
              /\ e'.rbdhead = (e.rbdhead + 1) % E1000_RBD_SLOTS
              /\ mmio'[E1000_RDT] # mmio[E1000_RDT]
         ELSE /\ rxret' # <<>>
              /\ UNCHANGED <<e, rbdmem, mmio, rxpkt>>]_vars

\* inite1000 has returned 0
InitSucceeded == ret = <<0>>

\* C21: after a successful inite1000 the Transmit- and the Receive-Descriptor-
\* Length registers hold the byte length of a 128-descriptor ring,
\* 128 * 16 = 2048, and head and tail of both rings are 0 before any send.
C21_RingGeometry ==
    (InitSucceeded /\ nsent = 0 /\ pc = "idle") =>
        /\ mmio[E1000_TDLEN] = W(E1000_TBD_SLOTS * TBD_SIZE)
        /\ mmio[E1000_RDLEN] = W(E1000_RBD_SLOTS * RBD_SIZE)
        /\ mmio[E1000_TDH] = WZero
        /\ mmio[E1000_TDT] = WZero
        /\ mmio[E1000_RDH] = WZero
        /\ mmio[E1000_RDT] = WZero
        /\ e.tbdhead = 0 /\ e.tbdtail = 0
        /\ e.rbdhead = 0 /\ e.rbdtail = 0

\* what does hold: the head and tail part, with the lengths the code writes
C21_HeadsAndTailsZero ==
    (InitSucceeded /\ nsent = 0 /\ pc = "idle") =>
        /\ mmio[E1000_TDLEN] = W(E1000_TBD_SLOTS * TBD_SIZE * 128)
        /\ mmio[E1000_RDLEN] = W(E1000_RBD_SLOTS * RBD_SIZE * 128)
        /\ mmio[E1000_TDH] = WZero
        /\ mmio[E1000_TDT] = WZero
        /\ mmio[E1000_RDH] = WZero
        /\ mmio[E1000_RDT] = WZero
        /\ e.tbdhead = 0 /\ e.tbdtail = 0
        /\ e.rbdhead = 0 /\ e.rbdtail = 0

\* the controller has a descriptor to fetch: transmit enabled, head # tail
HwTxPending == HwTxEnabled /\ mmio[E1000_TDH] # mmio[E1000_TDT]

\* descriptor h is the one the current sende1000 call filled, whole and with
\* its DONE bit clear
FilledByCall(h) ==
    /\ h = oldtail
    /\ pc = "send_poll"
    /\ tbdmem[h] = FilledTBD(e.tbuf[h], pkt.len)
    /\ ~E1000_TDESC_STATUS_DONE(tbdmem[h].sts)
    /\ BufByte(tbufmem[h], 0, fill) = PktByte(pkt.tag, 0)

\* C22: sende1000 writes the tail slot's buffer and descriptor (address,
\* length, command EOP|IFCS|RS, checksum offset 0, status cleared) before it
\* writes the tail register, so whenever the controller has a descriptor to
\* fetch between its head and its tail, that descriptor is one of the ring's
\* 128, completely filled, with its DONE bit clear; and the slot the
\* completion poll reads is the one the call filled.
C22_FetchedDescriptorsComplete ==
    /\ HwTxPending =>
          /\ WVal(mmio[E1000_TDH]) < E1000_TBD_SLOTS
          /\ FilledByCall(WVal(mmio[E1000_TDH]))
    /\ (pc = "send_poll") =>
          /\ e.tbdtail = NextTail(oldtail)
          /\ tbdmem[oldtail].len = pkt.len

\* what does hold: a descriptor the controller fetches inside the ring page
\* is complete
C22_InsideRingComplete ==
    /\ (HwTxPending /\ WVal(mmio[E1000_TDH]) < E1000_TBD_SLOTS) =>
          FilledByCall(WVal(mmio[E1000_TDH]))
    /\ (pc = "send_poll") =>
          /\ e.tbdtail = NextTail(oldtail)
          /\ tbdmem[oldtail].len = pkt.len

E1000_RCTL_EN == <<0, 2>>
HwRxEnabled == WAnd(mmio[E1000_RCTL], E1000_RCTL_EN) # WZero

\* inite1000 has made its write of register r
Written(r) ==
    \E k \in 1 .. wstep : ProgramWrites(e)[k].reg = r

\* the 8259A lets the controller's interrupt line through
IrqUnmasked == And16(irqmask, Pow2(pf.irqline)) = 0

\* C23: in inite1000 the transmitter is enabled only after the TX ring's base
\* low/high, length, head and tail have been written, the receiver only
\* after the RX ring's base low/high, length, head and tail, and the
\* interrupt line is unmasked only after every register write.
C23_EnableAfterRingSetup ==
    /\ HwTxEnabled =>
          \A r \in {E1000_TDBAL, E1000_TDBAH, E1000_TDLEN, E1000_TDH,
                     E1000_TDT} : Written(r)
    /\ HwRxEnabled =>
          \A r \in {E1000_RDBAL, E1000_RDBAH, E1000_RDLEN, E1000_RDH,
                     E1000_RDT} : Written(r)
    /\ IrqUnmasked => wstep = Len(ProgramWrites(e))

\* what does hold: the receiver and the interrupt line
C23_ReceiverAndIrqLast ==
    /\ HwRxEnabled =>
          \A r \in {E1000_RDBAL, E1000_RDBAH, E1000_RDLEN, E1000_RDH,
                     E1000_RDT} : Written(r)
    /\ IrqUnmasked => wstep = Len(ProgramWrites(e))

\* the 256 packet buffers: RX slots 0 .. 127, then TX slots 0 .. 127
BufStart(k) ==
    IF k < E1000_RBD_SLOTS THEN e.rbuf[k] ELSE e.tbuf[k - E1000_RBD_SLOTS]
\* the sizeof(packbuf) bytes at a and those at b have no byte in common
\* (compared as physical addresses)
Disjoint(a, b) ==
    \/ WVal(V2P(a)) + PACKBUF_SIZE <= WVal(V2P(b))
    \/ WVal(V2P(b)) + PACKBUF_SIZE <= WVal(V2P(a))

\* inite1000 has just returned 0: nothing has been sent yet
FreshlyInitialised == InitSucceeded /\ pc = "idle" /\ nsent = 0

\* C24: after a successful inite1000 the 128 RX and 128 TX packet buffers are
\* 256 pairwise non-overlapping regions of 2046 bytes, and every RX
\* descriptor's low buffer address is the physical address of its slot's
\* buffer, its high buffer address 0.
C24_BuffersDisjointAndWired ==
    FreshlyInitialised =>
        /\ \A i \in 0 .. E1000_RBD_SLOTS + E1000_TBD_SLOTS - 1 :
             \A j \in i + 1 .. E1000_RBD_SLOTS + E1000_TBD_SLOTS - 1 :
                 Disjoint(BufStart(i), BufStart(j))
        /\ \A i \in 0 .. E1000_RBD_SLOTS - 1 :
               /\ rbdmem[i].addr0 = V2P(e.rbuf[i])
               /\ rbdmem[i].addr1 = WZero

\* initialisation succeeded on pages that held 1s; slots 0 and 1 share a
\* page, the last RX buffer and the first TX buffer do not
C24_Witness ==
    /\ FreshlyInitialised
    /\ fill = 1
    /\ e.rbuf[1] = WAdd(e.rbuf[0], W(PACKBUF_SIZE))
    /\ WVal(V2P(e.tbuf[0])) - WVal(V2P(e.rbuf[E1000_RBD_SLOTS - 1]))
         > PACKBUF_SIZE
    /\ rbdmem[E1000_RBD_SLOTS - 1].addr0 = V2P(e.rbuf[E1000_RBD_SLOTS - 1])

\* C25: whatever the pages held when the allocator returned them, after a
\* successful inite1000 every TX descriptor has all fields 0 (its DONE bit
\* clear) and every RX descriptor has status, error, length and checksum 0.
C25_RingsZeroed ==
    FreshlyInitialised =>
        /\ \A i \in 0 .. E1000_TBD_SLOTS - 1 :
               /\ tbdmem[i] = ZeroTBD
               /\ ~E1000_TDESC_STATUS_DONE(tbdmem[i].sts)
        /\ \A i \in 0 .. E1000_RBD_SLOTS - 1 :
               /\ rbdmem[i].sts = 0
               /\ rbdmem[i].err = 0
               /\ rbdmem[i].len = 0
               /\ rbdmem[i].csm = 0

\* the two bytes of the caller's frame behind its 6-byte macaddr buffer
BehindMacBuffer == {6, 7}

\* C26: in inite1000 the station MAC is bytes 0-3 of Receive-Address-Low0
\* followed by bytes 0-1 of Receive-Address-High0; the driver's stored MAC
\* and the caller's 6-byte buffer both receive exactly these bytes, and no
\* byte outside the 6-byte buffer is written.
C26_MacCopiedInBounds ==
    (pc \notin {"inite1000", "reset", "reset_poll", "link", "panic",
                "wildmmio"}) =>
        /\ \A i \in 0 .. 3 :
               /\ e.mac[i] = WByte(DevRAL0, i)
               /\ macout[i] = WByte(DevRAL0, i)
        /\ \A i \in 4 .. 5 :
               /\ e.mac[i] = WByte(DevRAH0, i - 4)
               /\ macout[i] = WByte(DevRAH0, i - 4)
        /\ \A i \in BehindMacBuffer : macout[i] \in StackBytes

\* the offsets of the six BAR registers
BarOffsets == {PCI_MAPREG_START + 4 * n : n \in 0 .. 5}

\* C27: BAR probing is non-destructive: once pcienabledev has returned, each
\* of the function's six BAR registers holds the value it held before the
\* call, and in every turn of the loop the value saved as the original is
\* the value that BAR register held when it was read.
C27_BarProbeNonDestructive ==
    /\ (pc = "inite1000") =>
          \A off \in BarOffsets :
              cfg[<<pf.dev, pf.func>>][off] =
                  CfgReset(bus)[<<pf.dev, pf.func>>][off]
    /\ (pc \in {"pcienablebar", "inite1000"} /\ bar > PCI_MAPREG_START) =>
          /\ portlog[1].call = "pciconfread"
          /\ portlog[1].ret = portlog[1].reg

C29_RegisteredOnlyOnSuccess ==
    /\ (ret = <<-1>>) =>
          /\ nics = ZeroNic
          /\ getret \in {<<>>, <<-1>>}
    /\ txlog # <<>> =>
          /\ ret = <<0>>
          /\ txlog[1].drvr = "e1000"

\* the three 16-bit fields parsereply tests, stored as initframe stores its
\* own (hton of the protocol's value), with opcode 2
StoredAsInitframe(f) ==
    /\ f.ethtype = hton(2054)
    /\ f.prottype = hton(2048)
    /\ f.opercode = hton(2)

HeaderRejections ==
    {"Not an ARP packet", "Not IPV4 Protocol", "Not an ARP reply"}

\* C30: frame encoding and decoding agree on byte order: a reply whose
\* ethertype, protocol type and opcode are stored the way initframe stores
\* them, with opcode value 2, passes parsereply's ethertype, protocol-type
\* and opcode tests.
C30_EncodeDecodeAgree ==
    (rframe # <<>> /\ pc # "fault") =>
        (StoredAsInitframe(rframe[1]) => rmsg \notin HeaderRejections)

\* C32: sende1000 allocates no memory: once inite1000 has returned 0, no step
\* of a transmit changes the number of pages taken from the allocator,
\* however many transmits are made.
C32_SendAllocatesNothing ==
    [][InitSucceeded => nalloc' = nalloc]_vars

\* C31: whatever size the arp call is made with, the kernel writes at most
\* size bytes into the caller's buffer: no byte of the buffer at index size
\* or beyond is changed by sys_arp / sendrequest.
C31_WritesWithinSize ==
    sizearg # <<>> =>
        \A n \in DOMAIN arpresp :
            n >= sizearg[1] => arpresp[n] = FreshBuf[n]

====
